---------------------------- MODULE Spec2Model ----------------------------
(***************************************************************************)
(* A model of gqlc: the GraphQL schema graph (schema/schema.go), and the   *)
(* TypeScript/Zod generator (schema/typescript.go in its two revisions,    *)
(* and parser/parser.go for the operations module).                        *)
(*                                                                         *)
(* Go pointers that may be nil are modelled as sequences of length 0 or 1: *)
(* None is the nil pointer and Some(x) a pointer to x.  Generated text is  *)
(* modelled as a tree of records that keeps every write of the code as a   *)
(* node; identifiers are real strings built with \o as the code builds     *)
(* them with +.                                                            *)
(***************************************************************************)
EXTENDS Integers, Sequences, FiniteSets, TLC

VARIABLES
    trInput,      \* SpecTypeRef: the TypeRef handed to the renderer, and its position
    trOutput,     \* SpecTypeRef: the expression the renderer returned (None before the call)
    schema,       \* generator: the *Schema handed to Generate
    operations,   \* generator: g.operations, the []parser.AST
    pc,           \* generator: position inside Generate
    used,         \* generator: the map[string]bool of collectVariableSchemas
    stack,        \* generator: pending addTypeWithDependencies calls (the Go call stack)
    visits,       \* generator: how often the body of addTypeWithDependencies ran per name
    opIdx,        \* generator: index of the next operation of the loop of Generate
    out,          \* generator: the declarations written to w so far
    err,          \* generator: the error Generate returned (None while there is none)
    run,          \* generator: 1 during the first run on an input, 2 during the second
    prevOut,      \* generator: what the first run wrote (None during the first run)
    tsIdx,        \* operations module: index of the next operation to render
    tsOut,        \* operations module: what OperationDefinition.GenerateTypeScript wrote
    buildInput,   \* schema construction: the []parser.AST or the introspectionResponse
    nodeIdx,      \* schema construction: index of the next node of the loop
    built,        \* schema construction: the Schema under construction
    returned,     \* schema construction: what the constructor returned (None while running)
    tkInput,      \* tokenizer: the runes read from the io.Reader
    tkPos,        \* tokenizer: pos, the index of the next rune (from 0, as in Go)
    tkLine,       \* tokenizer: line
    tkCol,        \* tokenizer: col
    tkCh,         \* tokenizer: the tokens sent on ch so far
    tkClosed,     \* tokenizer: whether ch has been closed
    psInput,      \* parser: the text handed to Parse
    p,            \* parser: the *parser of the goroutine of Parse (None before newParser)
    astCh,        \* parser: the AST nodes sent on ch so far
    psState,      \* parser: "running", "sending" (in ch <- ast), "closed" (ch closed) or "panicked"
    fmInput,      \* formatter: the text of the operation
    fmOp,         \* formatter: the OperationDefinition parsed from it (None before)
    fmText,       \* formatter: generateFormattedGraphQLString of it (None before)
    fmReparsed,   \* formatter: what Parse yields on that text (None before)
    lexPc,        \* pipeline: where the goroutine of Tokenize is ("scan", "send", "close", "done")
    lexToken,     \* pipeline: the token nextToken returned that waits in `ch <- token`
    psPlan,       \* pipeline: the turns of the loop of Parse that are still to end
    psTaken,      \* pipeline: how many tokens the parser has received from the channel
    psNode,       \* pipeline: the node that waits in `ch <- ast` (None otherwise)
    cnPc          \* pipeline: where the consumer of Parse is ("recv", "stopped", "done")

trVars == <<trInput, trOutput>>
genVars == <<schema, operations, pc, used, stack, visits, opIdx, out, err, run, prevOut, tsIdx, tsOut>>
buildVars == <<buildInput, nodeIdx, built, returned>>
tokVars == <<tkInput, tkPos, tkLine, tkCol, tkCh, tkClosed>>
parseVars == <<psInput, p, astCh, psState>>
formatVars == <<fmInput, fmOp, fmText, fmReparsed>>
pipeVars == <<lexPc, lexToken, psPlan, psTaken, psNode, cnPc>>
vars == <<trVars, genVars, buildVars, tokVars, parseVars, formatVars, pipeVars>>

None == <<>>
Some(x) == <<x>>
IsSome(o) == o # <<>>
Get(o) == o[1]

Range(s) == {s[i] : i \in DOMAIN s}

-----------------------------------------------------------------------------
(* TypeRef, schema/schema.go:62 *)

Named(kind, name) == [Kind |-> kind, Name |-> Some(name), OfType |-> None]
NonNull(of) == [Kind |-> "NON_NULL", Name |-> None, OfType |-> Some(of)]
List(of) == [Kind |-> "LIST", Name |-> None, OfType |-> Some(of)]

TypeDef(name, kind, fields, inputFields, enumValues, possibleTypes) ==
    [Name |-> name, Kind |-> kind, Fields |-> fields, InputFields |-> inputFields,
     EnumValues |-> enumValues, PossibleTypes |-> possibleTypes]

FieldDef(name, type) == [Name |-> name, Type |-> type]

(* Generated validator expressions.  Every constructor is one piece of text the
   generator writes: Prim(s) is the text s itself. *)
Prim(s) == [tag |-> "prim", v |-> s]
RefExpr(name) == [tag |-> "ref", v |-> name \o "_Schema"]
EnumExpr(vals) == [tag |-> "enum", vals |-> vals]
ArrayExpr(e) == [tag |-> "array", of |-> e]
NullableExpr(e) == [tag |-> "nullable", of |-> e]
ObjectExpr(parts) == [tag |-> "object", parts |-> parts]
ErrorExpr(msg) == [tag |-> "error", msg |-> msg]
IsError(e) == e.tag = "error"

Separator == [p |-> "sep"]
Entry(key, val) == [p |-> "entry", key |-> key, val |-> val]

isBuiltInScalar(name) == name \in {"String", "ID", "Int", "Float", "Boolean"}

RECURSIVE getBaseTypeName(_)
getBaseTypeName(typeRef) ==
    IF IsSome(typeRef.Name) THEN Get(typeRef.Name)
    ELSE IF IsSome(typeRef.OfType) THEN getBaseTypeName(Get(typeRef.OfType))
    ELSE ""

findFieldDefinition(typeDef, name) ==
    LET hits == {i \in DOMAIN typeDef.Fields : typeDef.Fields[i].Name = name}
    IN  IF hits = {} THEN None
        ELSE Some(typeDef.Fields[CHOOSE i \in hits : \A j \in hits : i <= j])

defaultNamedTypeExpr(name, sch) ==
    CASE name \in {"String", "ID"} -> Prim("z.string()")
      [] name = "Int" -> Prim("z.number().int()")
      [] name = "Float" -> Prim("z.number()")
      [] name = "Boolean" -> Prim("z.boolean()")
      [] name = "" -> Prim("z.any()")
      [] OTHER -> IF name \in DOMAIN sch.Types THEN RefExpr(name) ELSE Prim("z.any()")

inlineNamedOutputExpr(name, sch) ==
    CASE name = "" -> Prim("z.any()")
      [] name \in {"String", "ID"} -> Prim("z.string()")
      [] name = "Int" -> Prim("z.number().int()")
      [] name = "Float" -> Prim("z.number()")
      [] name = "Boolean" -> Prim("z.boolean()")
      [] OTHER ->
           IF name \in DOMAIN sch.Types /\ sch.Types[name].Kind = "ENUM"
           THEN EnumExpr(sch.Types[name].EnumValues)
           ELSE Prim("z.any()")


(* The closure `custom` of generateSelectionSetSchema (part_004:397-406) is
   passed as the record of the values it captures: fieldTypeName, the nested
   selection set and the field's type definition.  defaultNamed is passed as
   "default" (defaultNamedTypeExpr) or "inline" (inlineNamedOutputExpr).  The
   depth parameter only sets the indentation and is left out. *)
Custom(fieldTypeName, ss, fieldType) ==
    [fieldTypeName |-> fieldTypeName, ss |-> ss, fieldType |-> fieldType]

applyDefaultNamed(defaultNamed, name, sch) ==
    IF defaultNamed = "inline" THEN inlineNamedOutputExpr(name, sch)
    ELSE defaultNamedTypeExpr(name, sch)

(* expr += ".nullable()" when allowNullable; an error is handed up unchanged *)
withNullable(expr, allowNullable) ==
    IF IsError(expr) THEN expr
    ELSE IF allowNullable THEN NullableExpr(expr) ELSE expr

(* fmt.Sprintf("z.array(%s)", innerExpr), part_004:503 *)
arrayOf(innerExpr) == IF IsError(innerExpr) THEN innerExpr ELSE ArrayExpr(innerExpr)

(* whether customNamed is set and returns an expression for typeRef, part_004:398 *)
customApplies(customNamed, typeRef) ==
    /\ IsSome(customNamed)
    /\ IsSome(typeRef.Name)
    /\ Get(typeRef.Name) = Get(customNamed).fieldTypeName

nameOf(typeRef) == IF IsSome(typeRef.Name) THEN Get(typeRef.Name) ELSE ""

(* the object expression the writes of one selection-set loop make up; an
   error of an entry is the result *)
objectOf(parts) ==
    IF parts # <<>> /\ "tag" \in DOMAIN parts[Len(parts)]
    THEN parts[Len(parts)]
    ELSE ObjectExpr(parts)

(* one iteration of a loop that writes object entries: the separator when it is
   not the first, the entry when the iteration writes one, and the rest of the
   loop; an error ends the loop *)
writeEntry(i, key, val, rest) ==
    IF IsSome(val) /\ IsError(Get(val)) THEN val
    ELSE (IF i > 1 THEN <<Separator>> ELSE <<>>)
           \o (IF IsSome(val) THEN <<Entry(key, Get(val))>> ELSE <<>>)
           \o rest

RECURSIVE typeRefToSchemaExprInternal(_, _, _, _, _)
RECURSIVE generateSelectionSetSchema(_, _, _)
RECURSIVE selectionParts(_, _, _, _)

(* typeRefToSchemaExprInternal with NON_NULL handing allowNullable on unchanged *)
typeRefNonNullKeepsNullable(typeRef, sch, customNamed, defaultNamed, allowNullable) ==
    CASE typeRef.Kind = "NON_NULL" ->
           IF typeRef.OfType = None THEN ErrorExpr("NON_NULL type without OfType")
           ELSE typeRefToSchemaExprInternal(Get(typeRef.OfType), sch, customNamed,
                                            defaultNamed, allowNullable)
      [] typeRef.Kind = "LIST" ->
           withNullable(
             arrayOf(IF IsSome(typeRef.OfType)
                     THEN typeRefToSchemaExprInternal(Get(typeRef.OfType), sch, customNamed,
                                                      defaultNamed, TRUE)
                     ELSE Prim("z.any()")),
             allowNullable)
      [] OTHER ->
           withNullable(
             IF customApplies(customNamed, typeRef)
             THEN generateSelectionSetSchema(Get(customNamed).ss,
                                             Get(customNamed).fieldType, sch)
             ELSE applyDefaultNamed(defaultNamed, nameOf(typeRef), sch),
             allowNullable)

typeRefToSchemaExprInternal(typeRef, sch, customNamed, defaultNamed, allowNullable) ==
    CASE typeRef.Kind = "NON_NULL" ->
           IF typeRef.OfType = None THEN ErrorExpr("NON_NULL type without OfType")
           ELSE typeRefToSchemaExprInternal(Get(typeRef.OfType), sch, customNamed,
                                            defaultNamed, FALSE)
      [] typeRef.Kind = "LIST" ->
           withNullable(
             arrayOf(IF IsSome(typeRef.OfType)
                     THEN typeRefToSchemaExprInternal(Get(typeRef.OfType), sch, customNamed,
                                                      defaultNamed, TRUE)
                     ELSE Prim("z.any()")),
             allowNullable)
      [] OTHER ->
           withNullable(
             IF customApplies(customNamed, typeRef)
             THEN generateSelectionSetSchema(Get(customNamed).ss,
                                             Get(customNamed).fieldType, sch)
             ELSE applyDefaultNamed(defaultNamed, nameOf(typeRef), sch),
             allowNullable)

typeRefToSchemaExpr(typeRef, sch, customNamed) ==
    typeRefToSchemaExprInternal(typeRef, sch, customNamed, "default", TRUE)

outputTypeRefSchema(typeRef, sch, customNamed) ==
    typeRefToSchemaExprInternal(typeRef, sch, customNamed, "inline", TRUE)

generateTypeRefSchema(typeRef, sch) == typeRefToSchemaExpr(typeRef, sch, None)

(* a field with a selection set whose base type the schema does not hold is
   written as z.any(), part_004:382-395 *)
baseTypeKnown(typeRef, sch) ==
    getBaseTypeName(typeRef) # "" /\ getBaseTypeName(typeRef) \in DOMAIN sch.Types

customFor(s, typeRef, sch) ==
    IF IsSome(s.SelectionSet)
    THEN Some(Custom(getBaseTypeName(typeRef), Get(s.SelectionSet),
                     sch.Types[getBaseTypeName(typeRef)]))
    ELSE None

(* fieldValueExpr that writes a field with a selection set as its declared type *)
fieldValueAsDeclaredType(s, fieldDef, sch) ==
    IF fieldDef = None THEN Prim("z.any()")
    ELSE typeRefToSchemaExpr(Get(fieldDef).Type, sch, None)

(* The value written for one parser.Field, part_004:370-424 *)
fieldValueExpr(s, fieldDef, sch) ==
    IF fieldDef = None THEN Prim("z.any()")
    ELSE IF IsSome(s.SelectionSet) /\ ~baseTypeKnown(Get(fieldDef).Type, sch)
    THEN Prim("z.any()")
    ELSE outputTypeRefSchema(Get(fieldDef).Type, sch, customFor(s, Get(fieldDef).Type, sch))

(* The loop over ss.Selections, part_004:357-434: what iterations i.. write *)
selectionParts(sels, i, parentType, sch) ==
    IF i > Len(sels) THEN <<>>
    ELSE writeEntry(i, sels[i].Name,
           IF sels[i].sel = "Field"
           THEN Some(fieldValueExpr(sels[i], findFieldDefinition(parentType, sels[i].Name), sch))
           ELSE None,
           selectionParts(sels, i + 1, parentType, sch))

generateSelectionSetSchema(ss, parentType, sch) ==
    objectOf(selectionParts(ss.Selections, 1, parentType, sch))

-----------------------------------------------------------------------------
(* parser AST, parser/parser.go *)

Query == 0
Mutation == 1
Subscription == 2

NamedType(name) == [t |-> "NamedType", Name |-> name]
ListType(type) == [t |-> "ListType", Type |-> type]
NonNullType(type) == [t |-> "NonNullType", Type |-> type]

VariableDefinition(name, type) == [Name |-> name, Type |-> type]

SelectionSet(selections) == [Selections |-> selections]
Field(name, selectionSet) ==
    [sel |-> "Field", Alias |-> None, Name |-> name, SelectionSet |-> selectionSet]
AliasedField(alias, name, selectionSet) ==
    [sel |-> "Field", Alias |-> Some(alias), Name |-> name, SelectionSet |-> selectionSet]
FragmentSpread(name) == [sel |-> "FragmentSpread", Name |-> name]
InlineFragment(typeName, selectionSet) ==
    [sel |-> "InlineFragment", TypeName |-> typeName, SelectionSet |-> selectionSet]

OperationDefinition(type, name, variables, selectionSet) ==
    [ast |-> "OperationDefinition", Type |-> type, Name |-> name,
     Variables |-> variables, SelectionSet |-> selectionSet]
FragmentDefinition(name, typeName, selectionSet) ==
    [ast |-> "FragmentDefinition", Name |-> name, TypeName |-> typeName,
     SelectionSet |-> selectionSet]

(* Strings whose characters the code inspects are sequences of one-character
   strings; Join turns one back into the string the code goes on to use. *)
RECURSIVE Join(_)
Join(chars) == IF chars = <<>> THEN "" ELSE Head(chars) \o Join(Tail(chars))

UpperLetters ==
    <<"A","B","C","D","E","F","G","H","I","J","K","L","M",
      "N","O","P","Q","R","S","T","U","V","W","X","Y","Z">>
LowerLetters ==
    <<"a","b","c","d","e","f","g","h","i","j","k","l","m",
      "n","o","p","q","r","s","t","u","v","w","x","y","z">>
IndexIn(c, letters) == CHOOSE i \in DOMAIN letters : letters[i] = c
IsWordChar(c) == c \in Range(UpperLetters) \cup Range(LowerLetters) \cup {"_"}

(* strings.ToLower *)
ToLower(chars) ==
    [i \in DOMAIN chars |->
        IF chars[i] \in Range(UpperLetters)
        THEN LowerLetters[IndexIn(chars[i], UpperLetters)] ELSE chars[i]]

(* strings.Title: the first letter of every word in upper case *)
Title(chars) ==
    [i \in DOMAIN chars |->
        IF (i = 1 \/ ~IsWordChar(chars[i - 1])) /\ chars[i] \in Range(LowerLetters)
        THEN UpperLetters[IndexIn(chars[i], LowerLetters)] ELSE chars[i]]

(* OperationType.String, parser.go:27 *)
OperationTypeString(ot) ==
    CASE ot = Query -> <<"Q","u","e","r","y">>
      [] ot = Mutation -> <<"M","u","t","a","t","i","o","n">>
      [] ot = Subscription -> <<"S","u","b","s","c","r","i","p","t","i","o","n">>
      [] OTHER -> <<"U","n","k","n","o","w","n">>

(* OperationDefinition.generateFunctionName, parser.go:227 *)
generateFunctionName(od) ==
    IF IsSome(od.Name) THEN Get(od.Name)
    ELSE Join(Title(ToLower(OperationTypeString(od.Type)))) \o "Operation"

(* Type.ToTypeScript, parser.go:572-617: the TypeScript type and the schema
   type it uses; "schema." is the schema module *)
RECURSIVE ToTypeScript(_)
ToTypeScript(t) ==
    CASE t.t = "NamedType" ->
           (CASE t.Name \in {"String", "ID"} -> <<"string", "">>
              [] t.Name \in {"Int", "Float"} -> <<"number", "">>
              [] t.Name = "Boolean" -> <<"boolean", "">>
              [] OTHER -> <<"schema." \o t.Name, t.Name>>)
      [] t.t = "ListType" -> <<ToTypeScript(t.Type)[1] \o "[]", ToTypeScript(t.Type)[2]>>
      [] t.t = "NonNullType" -> ToTypeScript(t.Type)

(* strings.Join(fields, ", ") *)
RECURSIVE JoinFields(_)
JoinFields(fields) ==
    IF fields = <<>> THEN ""
    ELSE IF Len(fields) = 1 THEN fields[1]
    ELSE fields[1] \o ", " \o JoinFields(Tail(fields))

(* OperationDefinition.generateVariableInterface, parser.go:295: the type of
   the variables parameter, and the schema types it names in the order of the
   variables *)
generateVariableInterface(od) ==
    IF od.Variables = <<>> THEN [varType |-> "", schemaTypes |-> <<>>]
    ELSE [varType |-> "{" \o JoinFields([i \in DOMAIN od.Variables |->
                         od.Variables[i].Name \o ": "
                           \o ToTypeScript(od.Variables[i].Type)[1]]) \o "}",
          schemaTypes |-> SelectSeq([i \in DOMAIN od.Variables |->
                                       ToTypeScript(od.Variables[i].Type)[2]],
                                    LAMBDA usedType : usedType # "")]

(* OperationDefinition.GenerateTypeScript, parser.go:89: the identifiers the
   operations module declares for od and those it reads from the schema module
   (schema.<name>), in the order they are written. *)
GenerateTypeScript(od) ==
    LET funcName == generateFunctionName(od)
        operationTypeName == funcName \o "_Type"
        operationSchemaName == funcName \o "_Schema"
        queryConstName == funcName \o "_query"
    IN  [declares |-> <<queryConstName, funcName>>,
         varType |-> generateVariableInterface(od).varType,
         schemaRefs |-> generateVariableInterface(od).schemaTypes
                          \o <<operationTypeName, operationSchemaName>>,
         uses |-> <<queryConstName>>]

-----------------------------------------------------------------------------
(* The generator, schema/typescript.go as of src/unnamed/part_004 *)

ConstDecl(name, expr) == [d |-> "const", name |-> name, expr |-> expr]
TypeDecl(name, schemaName) == [d |-> "type", name |-> name, of |-> schemaName]
CommentDecl(text) == [d |-> "comment", text |-> text]
ImportDecl == [d |-> "import", text |-> "import { z } from \"zod\";"]
LazyExpr(e) == [tag |-> "lazy", of |-> e]
UnionExpr(members) == [tag |-> "union", members |-> members]

Written(decls) == [decls |-> decls, err |-> None]
Failed(decls, msg) == [decls |-> decls, err |-> Some(msg)]

(* The object entries of an INPUT_OBJECT (or OBJECT) declaration,
   part_004:223-235 and 245-257 *)
RECURSIVE typeFieldParts(_, _, _)
typeFieldParts(fields, i, sch) ==
    IF i > Len(fields) THEN <<>>
    ELSE writeEntry(i, fields[i].Name, Some(generateTypeRefSchema(fields[i].Type, sch)),
                    typeFieldParts(fields, i + 1, sch))

(* the declarations of a type whose const is written as expr *)
typeDecls(typeDef, expr) ==
    IF IsSome(expr) /\ IsError(Get(expr)) THEN Failed(<<>>, Get(expr).msg)
    ELSE Written((IF IsSome(expr)
                  THEN <<ConstDecl(typeDef.Name \o "_Schema", Get(expr))>> ELSE <<>>)
                 \o <<TypeDecl(typeDef.Name, typeDef.Name \o "_Schema")>>)

lazyObject(object) == IF IsError(object) THEN object ELSE LazyExpr(object)

generateTypeSchema(typeDef, sch) ==
    typeDecls(typeDef,
      CASE typeDef.Kind = "ENUM" -> Some(EnumExpr(typeDef.EnumValues))
        [] typeDef.Kind = "INPUT_OBJECT" ->
             Some(lazyObject(objectOf(typeFieldParts(typeDef.InputFields, 1, sch))))
        [] typeDef.Kind \in {"OBJECT", "INTERFACE"} ->
             Some(lazyObject(objectOf(typeFieldParts(typeDef.Fields, 1, sch))))
        [] typeDef.Kind = "SCALAR" -> Some(Prim("z.any()"))
        [] typeDef.Kind = "UNION" ->
             Some(UnionExpr([i \in DOMAIN typeDef.PossibleTypes |->
                               typeDef.PossibleTypes[i] \o "_Schema"]))
        [] OTHER -> None)

(* OperationDefinition.Type to the root type, part_004:309-317 *)
rootTypeOf(op, sch) ==
    CASE op.Type = Query -> sch.Query
      [] op.Type = Mutation -> sch.Mutation
      [] op.Type = Subscription -> sch.Subscription
      [] OTHER -> None

(* operationFuncName without strings.Title *)
operationFuncNameUntitled(op) ==
    IF IsSome(op.Name) THEN Get(op.Name)
    ELSE Join(ToLower(OperationTypeString(op.Type))) \o "Operation"

operationFuncName(op) ==
    IF IsSome(op.Name) THEN Get(op.Name)
    ELSE Join(Title(ToLower(OperationTypeString(op.Type)))) \o "Operation"

operationDecls(funcNameStr, expr) ==
    IF IsError(expr)
    THEN Failed(<<CommentDecl("// Schema for " \o funcNameStr \o " operation")>>, expr.msg)
    ELSE Written(<<CommentDecl("// Schema for " \o funcNameStr \o " operation"),
                   ConstDecl(funcNameStr \o "_Schema", expr),
                   TypeDecl(funcNameStr \o "_Type", funcNameStr \o "_Schema")>>)

(* generateOperationSchema that looks for the root type after its first write *)
generateOperationSchemaLateRootCheck(op, sch) ==
    IF rootTypeOf(op, sch) = None
    THEN Failed(<<CommentDecl("// Schema for " \o operationFuncName(op) \o " operation")>>,
                "root type not found for operation type")
    ELSE operationDecls(operationFuncName(op),
           generateSelectionSetSchema(op.SelectionSet, Get(rootTypeOf(op, sch)), sch))

generateOperationSchema(op, sch) ==
    IF rootTypeOf(op, sch) = None
    THEN Failed(<<>>, "root type not found for operation type")
    ELSE operationDecls(operationFuncName(op),
           generateSelectionSetSchema(op.SelectionSet, Get(rootTypeOf(op, sch)), sch))

(* sort.Strings orders byte-wise.  SortedNames lists, in that order, every
   name that can be a key of the map. *)
SortedNames ==
    <<"", "A", "B", "Boolean", "E", "Float", "Ghost", "ID", "Int", "Mutation",
      "Query", "S", "String", "Subscription", "User">>
StringLess(a, b) == IndexIn(a, SortedNames) < IndexIn(b, SortedNames)

RECURSIVE sortedKeys(_)
sortedKeys(m) ==
    IF m = {} THEN <<>>
    ELSE LET least == CHOOSE k \in m : \A o \in m : o = k \/ StringLess(k, o)
         IN  <<least>> \o sortedKeys(m \ {least})

(* collectVariableType, part_004:140: the name it hands to addTypeWithDependencies *)
RECURSIVE collectVariableType(_)
collectVariableType(t) ==
    CASE t.t = "NamedType" -> <<t.Name>>
      [] t.t \in {"ListType", "NonNullType"} -> collectVariableType(t.Type)
      [] OTHER -> <<>>

(* collectTypeRefDependencies, part_004:180: likewise for a schema TypeRef *)
RECURSIVE collectTypeRefDependencies(_)
collectTypeRefDependencies(typeRef) ==
    IF typeRef.Kind \in {"NON_NULL", "LIST"}
    THEN IF IsSome(typeRef.OfType)
         THEN collectTypeRefDependencies(Get(typeRef.OfType)) ELSE <<>>
    ELSE IF IsSome(typeRef.Name) THEN <<Get(typeRef.Name)>> ELSE <<>>

RECURSIVE Flatten(_)
Flatten(seqs) == IF seqs = <<>> THEN <<>> ELSE Head(seqs) \o Flatten(Tail(seqs))

(* The calls collectVariableSchemas makes, in order: one per variable of every
   OperationDefinition, part_004:127-135 *)
collectVariableSchemas(ops) ==
    Flatten([i \in DOMAIN ops |->
        IF ops[i].ast = "OperationDefinition"
        THEN Flatten([j \in DOMAIN ops[i].Variables |->
                        collectVariableType(ops[i].Variables[j].Type)])
        ELSE <<>>])

(* One call of addTypeWithDependencies(schema, typeName, used), part_004:151:
   the new map, and the calls it makes next (its loop over InputFields), which
   run before the caller continues. *)
(* addTypeWithDependencies without the used[typeName] check *)
addTypeWithoutVisitedCheck(sch, typeName, usedNow) ==
    IF isBuiltInScalar(typeName) THEN [used |-> usedNow, calls |-> <<>>, ran |-> FALSE]
    ELSE IF typeName \notin DOMAIN sch.Types
    THEN [used |-> usedNow \cup {typeName}, calls |-> <<>>, ran |-> TRUE]
    ELSE IF sch.Types[typeName].Kind = "INPUT_OBJECT"
    THEN [used |-> usedNow \cup {typeName},
          calls |-> Flatten([i \in DOMAIN sch.Types[typeName].InputFields |->
                       collectTypeRefDependencies(sch.Types[typeName].InputFields[i].Type)]),
          ran |-> TRUE]
    ELSE IF sch.Types[typeName].Kind \in {"ENUM", "SCALAR"}
    THEN [used |-> usedNow \cup {typeName}, calls |-> <<>>, ran |-> TRUE]
    ELSE [used |-> usedNow, calls |-> <<>>, ran |-> TRUE]

addTypeWithDependencies(sch, typeName, usedNow) ==
    IF isBuiltInScalar(typeName) THEN [used |-> usedNow, calls |-> <<>>, ran |-> FALSE]
    ELSE IF typeName \in usedNow THEN [used |-> usedNow, calls |-> <<>>, ran |-> FALSE]
    ELSE IF typeName \notin DOMAIN sch.Types
    THEN [used |-> usedNow \cup {typeName}, calls |-> <<>>, ran |-> TRUE]
    ELSE LET typeDef == sch.Types[typeName]
         IN  CASE typeDef.Kind = "INPUT_OBJECT" ->
                    [used |-> usedNow \cup {typeName},
                     calls |-> Flatten([i \in DOMAIN typeDef.InputFields |->
                                  collectTypeRefDependencies(typeDef.InputFields[i].Type)]),
                     ran |-> TRUE]
               [] typeDef.Kind \in {"ENUM", "SCALAR"} ->
                    [used |-> usedNow \cup {typeName}, calls |-> <<>>, ran |-> TRUE]
               [] OTHER -> [used |-> usedNow, calls |-> <<>>, ran |-> TRUE]


(* The loop over sortedTypes in Generate, part_004:48-55: names without a
   definition in schema.Types are passed over; an error ends the loop *)
thenWritten(one, rest) ==
    IF IsSome(one.err) THEN one
    ELSE [decls |-> one.decls \o rest.decls, err |-> rest.err]

RECURSIVE generateTypeSchemas(_, _, _)
generateTypeSchemas(names, i, sch) ==
    IF i > Len(names) THEN Written(<<>>)
    ELSE IF names[i] \notin DOMAIN sch.Types THEN generateTypeSchemas(names, i + 1, sch)
    ELSE thenWritten(generateTypeSchema(sch.Types[names[i]], sch),
                     generateTypeSchemas(names, i + 1, sch))

(* Generate up to the operations loop, part_004:40-60 *)
generateRequiredTypes(requiredTypes, sch) ==
    IF requiredTypes # {}
    THEN thenWritten(Written(<<CommentDecl("// Type definitions used in operations")>>),
                     generateTypeSchemas(sortedKeys(requiredTypes), 1, sch))
    ELSE Written(<<>>)

-----------------------------------------------------------------------------
(* Inputs: schema graphs and operation lists *)

MaxOps == 2       \* operations per generation run
MaxSel == 2       \* selections per nested selection set
MaxVisits == 2    \* the visit counter saturates here

NoFields == <<>>
Scalar(name) == TypeDef(name, "SCALAR", NoFields, NoFields, <<>>, <<>>)
BuiltInTypes == {Scalar(n) : n \in {"String", "Int", "Float", "Boolean", "ID"}}

UserRef == Named("OBJECT", "User")
QueryType ==
    TypeDef("Query", "OBJECT",
      << FieldDef("user", UserRef),
         FieldDef("users", NonNull(List(NonNull(UserRef)))),
         FieldDef("status", Named("ENUM", "E")),
         FieldDef("name", NonNull(Named("SCALAR", "String"))),
         FieldDef("when", Named("SCALAR", "S")),
         FieldDef("lost", List(Named("OBJECT", "Ghost"))) >>,
      NoFields, <<>>, <<>>)
UserType ==
    TypeDef("User", "OBJECT",
      << FieldDef("id", NonNull(Named("SCALAR", "ID"))),
         FieldDef("name", Named("SCALAR", "String")),
         FieldDef("friends", NonNull(List(NonNull(UserRef)))),
         FieldDef("role", NonNull(Named("ENUM", "E"))) >>,
      NoFields, <<>>, <<>>)
MutationType ==
    TypeDef("Mutation", "OBJECT", << FieldDef("ping", Named("SCALAR", "Boolean")) >>,
            NoFields, <<>>, <<>>)
SubscriptionType ==
    TypeDef("Subscription", "OBJECT", << FieldDef("tick", NonNull(Named("SCALAR", "Int"))) >>,
            NoFields, <<>>, <<>>)
EnumE == TypeDef("E", "ENUM", NoFields, NoFields, <<"X", "Y">>, <<>>)
ScalarS == Scalar("S")
InputObject(name, inputFields) == TypeDef(name, "INPUT_OBJECT", NoFields, inputFields, <<>>, <<>>)

ARef == Named("INPUT_OBJECT", "A")
BRef == Named("INPUT_OBJECT", "B")
ERef == Named("ENUM", "E")

InputShapes == {"cycle", "self", "chain", "gap"}
InputTypes(shape) ==
    CASE shape = "cycle" ->
           { InputObject("A", << FieldDef("b", BRef) >>),
             InputObject("B", << FieldDef("a", NonNull(ARef)) >>) }
      [] shape = "self" ->
           { InputObject("A", << FieldDef("e", NonNull(ERef)), FieldDef("a", ARef) >>),
             InputObject("B", << FieldDef("s", Named("SCALAR", "S")) >>) }
      [] shape = "chain" ->
           { InputObject("A", << FieldDef("b", List(NonNull(BRef))) >>),
             InputObject("B", << FieldDef("e", ERef), FieldDef("s", Named("SCALAR", "S")),
                                 FieldDef("n", Named("SCALAR", "Int")) >>) }
      [] shape = "gap" ->
           { InputObject("A", << FieldDef("u", UserRef), FieldDef("g", Named("OBJECT", "Ghost")) >>),
             InputObject("B", << FieldDef("e", ERef) >>) }

TypesOf(defs) == [n \in {d.Name : d \in defs} |-> CHOOSE d \in defs : d.Name = n]

SchemaOf(shape, mutation, subscription) ==
    [Types |-> TypesOf(BuiltInTypes \cup {QueryType, UserType, EnumE, ScalarS}
                         \cup InputTypes(shape)
                         \cup (IF mutation THEN {MutationType} ELSE {})
                         \cup (IF subscription THEN {SubscriptionType} ELSE {})),
     Query |-> Some(QueryType),
     Mutation |-> IF mutation THEN Some(MutationType) ELSE None,
     Subscription |-> IF subscription THEN Some(SubscriptionType) ELSE None]

Schemas ==
    {SchemaOf(shape, TRUE, FALSE) : shape \in InputShapes}
      \cup {SchemaOf("cycle", TRUE, TRUE), SchemaOf("chain", FALSE, FALSE)}

Leaf(name) == Field(name, None)
Sub(name, sels) == Field(name, Some(SelectionSet(sels)))

SeqsUpTo(S, n) == UNION {[1..k -> S] : k \in 1..n}

(* operations that differ in kind, name and variables *)
PlainOperations ==
    { OperationDefinition(Query, None, <<>>,
        SelectionSet(<< Sub("user", << Leaf("id"), Leaf("name") >>) >>)),
      OperationDefinition(Query, Some("GetUser"), << VariableDefinition("a", NamedType("A")) >>,
        SelectionSet(<< Sub("user", << Leaf("id") >>) >>)),
      OperationDefinition(Query, Some("List"),
        << VariableDefinition("b", NonNullType(ListType(NonNullType(NamedType("B"))))),
           VariableDefinition("e", NamedType("E")) >>,
        SelectionSet(<< Leaf("status") >>)),
      OperationDefinition(Query, Some("Odd"),
        << VariableDefinition("u", NamedType("User")),
           VariableDefinition("g", NamedType("Ghost")),
           VariableDefinition("s", NonNullType(NamedType("S"))),
           VariableDefinition("id", NonNullType(NamedType("ID"))) >>,
        SelectionSet(<< Leaf("name") >>)),
      OperationDefinition(Mutation, None, <<>>, SelectionSet(<< Leaf("ping") >>)),
      OperationDefinition(Mutation, Some("Ping"),
        << VariableDefinition("a", NonNullType(NamedType("A"))) >>,
        SelectionSet(<< Leaf("ping") >>)),
      OperationDefinition(Subscription, None, <<>>, SelectionSet(<< Leaf("tick") >>)),
      FragmentDefinition("F", "User", SelectionSet(<< Leaf("id") >>)) }

OperationLists == {<<>>} \cup SeqsUpTo(PlainOperations, MaxOps)

(* operations that differ in their selection set *)
UserSelections ==
    { Leaf("id"), Leaf("name"), Leaf("nope"), FragmentSpread("F"),
      Sub("friends", << Leaf("id") >>) }
RootSelections ==
    { Sub(n, sels) : n \in {"user", "users", "ghost", "lost", "name"},
                     sels \in SeqsUpTo(UserSelections, MaxSel) }
      \cup { Leaf(n) : n \in {"user", "status", "name", "when", "lost", "ghost"} }
      \cup { FragmentSpread("F"), InlineFragment(Some("User"), SelectionSet(<< Leaf("id") >>)) }
RootPairs ==
    { << a, b >> : a \in { Leaf("name"), Leaf("ghost"), FragmentSpread("F"),
                           Sub("user", << Leaf("id"), Leaf("name") >>) },
                   b \in { Leaf("status"), FragmentSpread("F"),
                           Sub("users", << Leaf("name"), Leaf("id") >>),
                           AliasedField("me", "user", Some(SelectionSet(<< Leaf("id") >>))) } }
SelectionOperations ==
    { OperationDefinition(Query, None, <<>>, SelectionSet(sels)) :
        sels \in {<<s>> : s \in RootSelections} \cup RootPairs }

-----------------------------------------------------------------------------
(* The generation run.  The operations module is rendered first, one operation
   at a time (parser.go:89); then Generate (part_004:31) runs: the closure of the
   variable types, call by call, the type declarations, and the operations in
   input order. *)

Min(a, b) == IF a < b THEN a ELSE b

NothingRendered == [declares |-> <<>>, varType |-> "", schemaRefs |-> <<>>, uses |-> <<>>]

GenInputs ==
    (Schemas \X OperationLists)
      \cup ({SchemaOf("cycle", TRUE, FALSE)} \X {<<op>> : op \in SelectionOperations})

IdleTypeRef == trInput = None /\ trOutput = None
IdleBuild == buildInput = <<>> /\ nodeIdx = 0 /\ built = None /\ returned = None
IdleTok ==
    tkInput = "" /\ tkPos = 0 /\ tkLine = 0 /\ tkCol = 0 /\ tkCh = <<>> /\ tkClosed = FALSE
IdleParse == psInput = "" /\ p = None /\ astCh = <<>> /\ psState = "idle"
IdleFormat == fmInput = "" /\ fmOp = None /\ fmText = None /\ fmReparsed = None
IdlePipe ==
    /\ lexPc = "idle" /\ lexToken = None /\ psPlan = <<>> /\ psTaken = 0 /\ psNode = None
    /\ cnPc = "idle"
IdleText == IdleTok /\ IdleParse /\ IdleFormat /\ IdlePipe

InitGen ==
    /\ \E input \in GenInputs : schema = input[1] /\ operations = input[2]
    /\ pc = "ts"
    /\ used = {}
    /\ stack = <<>>
    /\ visits = [n \in Range(SortedNames) |-> 0]
    /\ opIdx = 1
    /\ out = <<>>
    /\ err = None
    /\ run = 1
    /\ prevOut = None
    /\ tsIdx = 1
    /\ tsOut = <<>>

Init == InitGen /\ IdleTypeRef /\ IdleBuild /\ IdleText

RenderOperation ==
    /\ pc = "ts"
    /\ tsIdx <= Len(operations)
    /\ tsOut' = Append(tsOut,
                  IF operations[tsIdx].ast = "OperationDefinition"
                  THEN GenerateTypeScript(operations[tsIdx]) ELSE NothingRendered)
    /\ tsIdx' = tsIdx + 1
    /\ UNCHANGED <<schema, operations, pc, used, stack, visits, opIdx, out, err, run, prevOut>>
    /\ UNCHANGED <<trVars, buildVars, tokVars, parseVars, formatVars, pipeVars>>

CollectVariableSchemas ==
    /\ pc = "ts"
    /\ tsIdx > Len(operations)
    /\ pc' = "collect"
    /\ used' = {}
    /\ stack' = collectVariableSchemas(operations)
    /\ out' = <<ImportDecl>>
    /\ UNCHANGED <<schema, operations, visits, opIdx, err, run, prevOut, tsIdx, tsOut>>
    /\ UNCHANGED <<trVars, buildVars, tokVars, parseVars, formatVars, pipeVars>>

AddTypeWithDependencies ==
    /\ pc = "collect"
    /\ stack # <<>>
    /\ \E call \in {addTypeWithDependencies(schema, Head(stack), used)} :
           /\ used' = call.used
           /\ stack' = call.calls \o Tail(stack)
           /\ visits' = IF call.ran
                        THEN [visits EXCEPT ![Head(stack)] = Min(@ + 1, MaxVisits)]
                        ELSE visits
    /\ UNCHANGED <<schema, operations, pc, opIdx, out, err, run, prevOut, tsIdx, tsOut>>
    /\ UNCHANGED <<trVars, buildVars, tokVars, parseVars, formatVars, pipeVars>>

GenerateTypes ==
    /\ pc = "collect"
    /\ stack = <<>>
    /\ \E written \in {generateRequiredTypes(used, schema)} :
           /\ out' = out \o written.decls
           /\ err' = written.err
           /\ pc' = IF IsSome(written.err) THEN "failed" ELSE "ops"
    /\ opIdx' = 1
    /\ UNCHANGED <<schema, operations, used, stack, visits, run, prevOut, tsIdx, tsOut>>
    /\ UNCHANGED <<trVars, buildVars, tokVars, parseVars, formatVars, pipeVars>>

GenerateOperation ==
    /\ pc = "ops"
    /\ opIdx <= Len(operations)
    /\ \E written \in {IF operations[opIdx].ast = "OperationDefinition"
                         THEN generateOperationSchema(operations[opIdx], schema)
                         ELSE Written(<<>>)} :
           /\ out' = out \o written.decls
           /\ err' = written.err
           /\ pc' = IF IsSome(written.err) THEN "failed" ELSE "ops"
    /\ opIdx' = opIdx + 1
    /\ UNCHANGED <<schema, operations, used, stack, visits, run, prevOut, tsIdx, tsOut>>
    /\ UNCHANGED <<trVars, buildVars, tokVars, parseVars, formatVars, pipeVars>>

Return ==
    /\ pc = "ops"
    /\ opIdx > Len(operations)
    /\ pc' = "done"
    /\ UNCHANGED <<schema, operations, used, stack, visits, opIdx, out, err, run, prevOut,
                   tsIdx, tsOut>>
    /\ UNCHANGED <<trVars, buildVars, tokVars, parseVars, formatVars, pipeVars>>

Next ==
    \/ RenderOperation
    \/ CollectVariableSchemas
    \/ AddTypeWithDependencies
    \/ GenerateTypes
    \/ GenerateOperation
    \/ Return

Spec == Init /\ [][Next]_vars

(* The closure is sequential code: while a call of addTypeWithDependencies is
   pending, it runs *)
FairSpec == Spec /\ WF_vars(AddTypeWithDependencies)

-----------------------------------------------------------------------------
(* Rendering one TypeRef: a field's type in a selection (outputTypeRefSchema,
   part_004:417) or an input field's type in a type declaration
   (generateTypeRefSchema, part_004:232). *)

MaxWrap == 3      \* List/NonNull wrappers around a named type

NamedRefs ==
    { Named("SCALAR", "String"), Named("SCALAR", "Int"), Named("SCALAR", "ID"),
      Named("ENUM", "E"), Named("SCALAR", "S"), Named("OBJECT", "User"),
      Named("INPUT_OBJECT", "A"), Named("OBJECT", "Ghost") }

RECURSIVE TypeRefsUpTo(_)
TypeRefsUpTo(k) ==
    IF k = 0 THEN NamedRefs
    ELSE TypeRefsUpTo(k - 1)
           \cup {NonNull(t) : t \in TypeRefsUpTo(k - 1)}
           \cup {List(t) : t \in TypeRefsUpTo(k - 1)}

TypeRefSchema == SchemaOf("gap", TRUE, FALSE)

IdleGen ==
    /\ schema = None /\ operations = <<>> /\ pc = "idle" /\ used = {} /\ stack = <<>>
    /\ visits = <<>> /\ opIdx = 0 /\ out = <<>> /\ err = None /\ run = 0
    /\ prevOut = None /\ tsIdx = 0 /\ tsOut = <<>>

InitTypeRef ==
    /\ \E t \in TypeRefsUpTo(MaxWrap), position \in {"field", "input"} :
          trInput = Some([typeRef |-> t, position |-> position])
    /\ trOutput = None
    /\ IdleGen
    /\ IdleBuild
    /\ IdleText

RenderTypeRef ==
    /\ IsSome(trInput)
    /\ trOutput = None
    /\ trOutput' = Some(IF Get(trInput).position = "field"
                        THEN outputTypeRefSchema(Get(trInput).typeRef, TypeRefSchema, None)
                        ELSE generateTypeRefSchema(Get(trInput).typeRef, TypeRefSchema))
    /\ UNCHANGED <<trInput, genVars, buildVars, tokVars, parseVars, formatVars, pipeVars>>

NextTypeRef == RenderTypeRef

SpecTypeRef == InitTypeRef /\ [][NextTypeRef]_vars

(* the wrappers of a TypeRef from the outside in, ending in "NAMED" *)
RECURSIVE Levels(_)
Levels(t) ==
    IF t.Kind \in {"NON_NULL", "LIST"} THEN <<t.Kind>> \o Levels(Get(t.OfType))
    ELSE <<"NAMED">>

(* the modifiers of an expression from the outside in, ending in "base" *)
RECURSIVE Modifiers(_)
Modifiers(e) ==
    IF e.tag \in {"nullable", "array"} THEN <<e.tag>> \o Modifiers(e.of)
    ELSE <<"base">>

RECURSIVE BaseOf(_)
BaseOf(e) == IF e.tag \in {"nullable", "array"} THEN BaseOf(e.of) ELSE e

(* what the nullability rule asks of the levels i.. of a TypeRef: NonNull
   writes nothing, a list is an array, a named type is the base validator, and
   "nullable" goes before a list or a named type exactly when the level above
   it is not NonNull *)
RECURSIVE ExpectedModifiers(_, _)
ExpectedModifiers(levels, i) ==
    IF i > Len(levels) THEN <<>>
    ELSE (IF levels[i] # "NON_NULL" /\ (i = 1 \/ levels[i - 1] # "NON_NULL")
          THEN <<"nullable">> ELSE <<>>)
         \o (CASE levels[i] = "LIST" -> <<"array">>
               [] levels[i] = "NAMED" -> <<"base">>
               [] OTHER -> <<>>)
         \o ExpectedModifiers(levels, i + 1)

(* the validator of a named type by itself at the position *)
NamedValidator(position, name) ==
    IF position = "field" THEN inlineNamedOutputExpr(name, TypeRefSchema)
    ELSE defaultNamedTypeExpr(name, TypeRefSchema)

(* C2: every rendered TypeRef carries "nullable" at exactly the list and named
   levels that are not directly under NonNull, a list is always an array of its
   element expression, and the innermost expression is the validator of the
   named type; NonNull(List(NonNull(T))) is array(T validator) with no nullable. *)
C2_NullabilityRule ==
    IsSome(trOutput) =>
      /\ Modifiers(Get(trOutput)) = ExpectedModifiers(Levels(Get(trInput).typeRef), 1)
      /\ BaseOf(Get(trOutput))
           = NamedValidator(Get(trInput).position, getBaseTypeName(Get(trInput).typeRef))
      /\ \A n \in {"E", "String", "User"} :
           Get(trInput).typeRef = NonNull(List(NonNull(Named("SCALAR", n))))
             => Get(trOutput) = ArrayExpr(NamedValidator(Get(trInput).position, n))

C2_Witness ==
    /\ trInput = Some([typeRef |-> NonNull(List(NonNull(Named("SCALAR", "String")))),
                       position |-> "field"])
    /\ trOutput = Some(ArrayExpr(Prim("z.string()")))

-----------------------------------------------------------------------------
(* The shape of an operation's validator against its selection set *)

Entries(object) == SelectSeq(object.parts, LAMBDA part : part.p = "entry")
FieldSelections(ss) == SelectSeq(ss.Selections, LAMBDA s : s.sel = "Field")
Keys(object) == [i \in DOMAIN Entries(object) |-> Entries(object)[i].key]
FieldNames(ss) == [i \in DOMAIN FieldSelections(ss) |-> FieldSelections(ss)[i].Name]

(* the operation Generate wrote last and the validator it wrote for it *)
OperationWritten ==
    /\ pc \in {"ops", "done"}
    /\ opIdx > 1
    /\ operations[opIdx - 1].ast = "OperationDefinition"
LastOperation == operations[opIdx - 1]
LastValidator == out[Len(out) - 1].expr

RECURSIVE HasRef(_)
HasRef(e) ==
    CASE e.tag = "ref" -> TRUE
      [] e.tag \in {"nullable", "array", "lazy"} -> HasRef(e.of)
      [] e.tag = "object" -> \E i \in DOMAIN Entries(e) : HasRef(Entries(e)[i].val)
      [] OTHER -> FALSE

(* object is an object with one entry per Field selection of ss, in order, and
   the entry of every field with a sub-selection is, under its list and
   nullable wrappers, such an object for the sub-selection *)
RECURSIVE InlinesEverySelection(_, _)
InlinesEverySelection(ss, object) ==
    /\ object.tag = "object"
    /\ Keys(object) = FieldNames(ss)
    /\ \A i \in DOMAIN FieldSelections(ss) :
         IsSome(FieldSelections(ss)[i].SelectionSet) =>
           InlinesEverySelection(Get(FieldSelections(ss)[i].SelectionSet),
                                 BaseOf(Entries(object)[i].val))

(* the same, with the fields that cannot be resolved set apart: a field with a
   sub-selection that parentType does not define, or whose named type the
   schema does not hold, is the any validator; every other one is inlined and
   wrapped by the nullability rule of its declared type *)
RECURSIVE InlinesResolvedSelections(_, _, _, _)
InlinesResolvedSelections(ss, parentType, sch, object) ==
    /\ object.tag = "object"
    /\ Keys(object) = FieldNames(ss)
    /\ \A i \in DOMAIN FieldSelections(ss) :
         LET s == FieldSelections(ss)[i]
             fieldDef == findFieldDefinition(parentType, s.Name)
             val == Entries(object)[i].val
         IN  IsSome(s.SelectionSet) =>
               IF fieldDef = None
                    \/ getBaseTypeName(Get(fieldDef).Type) \notin DOMAIN sch.Types
               THEN val = Prim("z.any()")
               ELSE /\ Modifiers(val) = ExpectedModifiers(Levels(Get(fieldDef).Type), 1)
                    /\ InlinesResolvedSelections(
                         Get(s.SelectionSet),
                         sch.Types[getBaseTypeName(Get(fieldDef).Type)], sch, BaseOf(val))

(* C1 as stated: the validator written for an operation is an object with one
   entry per Field selection in selection order, every field with a
   sub-selection is an inlined object of exactly its selected sub-fields, and
   no entry refers to a named declaration. *)
C1_EveryFieldInlined ==
    OperationWritten =>
      /\ InlinesEverySelection(LastOperation.SelectionSet, LastValidator)
      /\ ~HasRef(LastValidator)

(* C1: the validator written for an operation is an object with one entry per
   Field selection in selection order and no other entries; a field with a
   sub-selection that its parent type defines and whose named type the schema
   holds is an inlined object of exactly its selected sub-fields, wrapped by its
   list/non-null type; a field with a sub-selection that cannot be resolved is
   the any validator; no entry refers to a named declaration. *)
C1_ResolvedFieldsInlined ==
    OperationWritten =>
      /\ InlinesResolvedSelections(LastOperation.SelectionSet,
                                   Get(rootTypeOf(LastOperation, schema)),
                                   schema, LastValidator)
      /\ ~HasRef(LastValidator)

C1_Witness ==
    /\ OperationWritten
    /\ LastOperation = OperationDefinition(Query, None, <<>>,
                         SelectionSet(<< Sub("user", << Leaf("id"), Leaf("name") >>) >>))
    /\ LastValidator =
         ObjectExpr(<< Entry("user", NullableExpr(ObjectExpr(
              << Entry("id", Prim("z.string()")), Separator,
                 Entry("name", NullableExpr(Prim("z.string()"))) >>))) >>)

-----------------------------------------------------------------------------
(* What the schema module declares, operation by operation *)

(* the name an operation goes by, read off the naming rule *)
NameOfOperation(op) ==
    IF IsSome(op.Name) THEN Get(op.Name)
    ELSE CASE op.Type = Query -> "QueryOperation"
           [] op.Type = Mutation -> "MutationOperation"
           [] op.Type = Subscription -> "SubscriptionOperation"

DeclHead(decl) == <<decl.d, IF decl.d \in {"const", "type"} THEN decl.name ELSE "">>
DeclHeads(decls) == [i \in DOMAIN decls |-> DeclHead(decls[i])]

(* the part of the output behind the import line and the type declarations *)
TypeSection == generateRequiredTypes(used, schema).decls
OperationSection == SubSeq(out, 2 + Len(TypeSection), Len(out))

(* a full declaration of each of the first k operations, in input order *)
FullDeclarations(k) ==
    Flatten([i \in 1..k |->
        IF operations[i].ast = "OperationDefinition"
        THEN << <<"comment", "">>,
                <<"const", NameOfOperation(operations[i]) \o "_Schema">>,
                <<"type", NameOfOperation(operations[i]) \o "_Type">> >>
        ELSE <<>>])

HasRoot(op) ==
    CASE op.Type = Query -> IsSome(schema.Query)
      [] op.Type = Mutation -> IsSome(schema.Mutation)
      [] op.Type = Subscription -> IsSome(schema.Subscription)

(* C8: generation fails exactly at the first operation whose kind has no root
   type in the schema: at the failure the output holds a full declaration of
   every operation before it, in input order, and nothing of it or of a later
   one; an operation is only ever written when its root type exists. *)
C8_MissingRootStopsGeneration ==
    /\ pc = "failed" =>
         /\ err = Some("root type not found for operation type")
         /\ operations[opIdx - 1].ast = "OperationDefinition"
         /\ ~HasRoot(operations[opIdx - 1])
         /\ DeclHeads(OperationSection) = FullDeclarations(opIdx - 2)
    /\ pc \in {"ops", "done"} =>
         /\ err = None
         /\ \A i \in 1..(opIdx - 1) :
              operations[i].ast = "OperationDefinition" => HasRoot(operations[i])
         /\ DeclHeads(OperationSection) = FullDeclarations(opIdx - 1)

C8_Witness ==
    /\ pc = "failed"
    /\ opIdx = 3
    /\ operations[1].ast = "OperationDefinition"
    /\ operations[2].ast = "OperationDefinition"
    /\ operations[2].Type = Subscription
    /\ schema.Subscription = None
    /\ DeclHeads(OperationSection)
         = << <<"comment", "">>,
              <<"const", NameOfOperation(operations[1]) \o "_Schema">>,
              <<"type", NameOfOperation(operations[1]) \o "_Type">> >>

(* the names the schema module declares for the operation written last *)
SchemaModuleNames ==
    {out[i].name : i \in {j \in (Len(out) - 1)..Len(out) : out[j].d \in {"const", "type"}}}

(* the named type of a variable's declared type *)
RECURSIVE NamedTypeOf(_)
NamedTypeOf(t) == IF t.t = "NamedType" THEN t.Name ELSE NamedTypeOf(t.Type)

(* the named types of the variables of op that are not built-in scalars *)
CustomVariableTypes(op) ==
    SelectSeq([i \in DOMAIN op.Variables |-> NamedTypeOf(op.Variables[i].Type)],
              LAMBDA n : n \notin {"String", "ID", "Int", "Float", "Boolean"})

(* C6 as stated: for an operation with name N (QueryOperation,
   MutationOperation or SubscriptionOperation when it has none), the
   operations module declares N_query and N and refers to the schema module
   through N_Type and N_Schema only, and the schema module declares exactly
   N_Schema and N_Type for it. *)
C6_OnlyOperationNamesReferenced ==
    /\ \A i \in DOMAIN tsOut :
         operations[i].ast = "OperationDefinition" =>
           /\ tsOut[i].declares = << NameOfOperation(operations[i]) \o "_query",
                                     NameOfOperation(operations[i]) >>
           /\ tsOut[i].schemaRefs = << NameOfOperation(operations[i]) \o "_Type",
                                       NameOfOperation(operations[i]) \o "_Schema" >>
    /\ OperationWritten =>
         SchemaModuleNames = { NameOfOperation(LastOperation) \o "_Schema",
                               NameOfOperation(LastOperation) \o "_Type" }

(* C6: for an operation with name N (QueryOperation, MutationOperation or
   SubscriptionOperation when it has none), the operations module declares
   N_query and N and refers to the schema module through the non-built-in
   named types of the operation's variables, in their order, and then N_Type and
   N_Schema; the schema module declares exactly N_Schema and N_Type for the
   operation, the two names the operations module reads for it. *)
C6_ModulesAgreeOnOperationNames ==
    /\ \A i \in DOMAIN tsOut :
         operations[i].ast = "OperationDefinition" =>
           /\ tsOut[i].declares = << NameOfOperation(operations[i]) \o "_query",
                                     NameOfOperation(operations[i]) >>
           /\ tsOut[i].schemaRefs
                = CustomVariableTypes(operations[i])
                    \o << NameOfOperation(operations[i]) \o "_Type",
                          NameOfOperation(operations[i]) \o "_Schema" >>
    /\ OperationWritten =>
         /\ SchemaModuleNames \subseteq Range(tsOut[opIdx - 1].schemaRefs)
         /\ SchemaModuleNames = { NameOfOperation(LastOperation) \o "_Schema",
                                  NameOfOperation(LastOperation) \o "_Type" }

C6_Witness ==
    /\ OperationWritten
    /\ LastOperation.Name = None
    /\ LastOperation.Type = Mutation
    /\ tsOut[opIdx - 1].declares = <<"MutationOperation_query", "MutationOperation">>
    /\ tsOut[opIdx - 1].schemaRefs = <<"MutationOperation_Type", "MutationOperation_Schema">>
    /\ SchemaModuleNames = {"MutationOperation_Schema", "MutationOperation_Type"}

-----------------------------------------------------------------------------
(* The input closure, as a least fixed point over the schema graph *)

BuiltInScalars == {"String", "Int", "Float", "Boolean", "ID"}

RECURSIVE NamedTypeRefOf(_)
NamedTypeRefOf(typeRef) ==
    IF typeRef.Kind \in {"NON_NULL", "LIST"} THEN NamedTypeRefOf(Get(typeRef.OfType))
    ELSE Get(typeRef.Name)

(* the types the input fields of the input objects among names refer to *)
InputFieldTypes(sch, names) ==
    UNION { {NamedTypeRefOf(sch.Types[n].InputFields[i].Type) :
               i \in DOMAIN sch.Types[n].InputFields} :
            n \in {m \in names \cap DOMAIN sch.Types : sch.Types[m].Kind = "INPUT_OBJECT"} }

RECURSIVE InputClosure(_, _)
InputClosure(sch, names) ==
    IF InputFieldTypes(sch, names) \subseteq names THEN names
    ELSE InputClosure(sch, names \cup InputFieldTypes(sch, names))

VariableTypes(ops) ==
    UNION { {NamedTypeOf(ops[i].Variables[j].Type) : j \in DOMAIN ops[i].Variables} :
            i \in {k \in DOMAIN ops : ops[k].ast = "OperationDefinition"} }

(* the reachable types that are declared: those the schema holds as an input
   object, an enum or a scalar and that are not built in *)
ReachableTypes(sch, ops) ==
    { n \in InputClosure(sch, VariableTypes(ops)) \cap DOMAIN sch.Types :
        n \notin BuiltInScalars /\ sch.Types[n].Kind \in {"INPUT_OBJECT", "ENUM", "SCALAR"} }

(* an input object of the schema that a variable reaches and that reaches itself *)
OnInputCycle(sch, ops) ==
    \E n \in ReachableTypes(sch, ops) :
       sch.Types[n].Kind = "INPUT_OBJECT" /\ n \in InputClosure(sch, InputFieldTypes(sch, {n}))

Declarations(n) == {i \in DOMAIN out : out[i].d = "const" /\ out[i].name = n \o "_Schema"}

(* C4: when the variables reach input objects that refer to each other in a
   cycle, the closure computation comes to an end, and the output then holds
   exactly one declaration of every reachable input object, enum and scalar of
   the schema. *)
C4_CyclicClosureTerminates ==
    /\ (pc = "collect" /\ OnInputCycle(schema, operations))
         ~> (pc = "collect" /\ stack = <<>>)
    /\ [](pc \in {"ops", "done"} /\ OnInputCycle(schema, operations) =>
            \A n \in ReachableTypes(schema, operations) : Cardinality(Declarations(n)) = 1)

C4_Witness ==
    /\ pc = "done"
    /\ OnInputCycle(schema, operations)
    /\ schema.Types["A"].InputFields = << FieldDef("b", Named("INPUT_OBJECT", "B")) >>
    /\ schema.Types["B"].InputFields = << FieldDef("a", NonNull(Named("INPUT_OBJECT", "A"))) >>
    /\ used = {"A", "B"}
    /\ visits["A"] = 1 /\ visits["B"] = 1
    /\ Cardinality(Declarations("A")) = 1
    /\ Cardinality(Declarations("B")) = 1

-----------------------------------------------------------------------------
(* Gaps of the schema *)

IsGap(sch, name) ==
    \/ name \notin DOMAIN sch.Types
    \/ sch.Types[name].Kind \in {"OBJECT", "INTERFACE", "UNION"}

(* the declarations of input objects in the output, as <<type name, index>> *)
InputObjectDeclarations ==
    { <<n, i>> \in (DOMAIN schema.Types) \X (DOMAIN out) :
        /\ schema.Types[n].Kind = "INPUT_OBJECT"
        /\ out[i].d = "const"
        /\ out[i].name = n \o "_Schema" }

(* C7: generation ends without an error on every gap, and the position of the
   gap is the any validator: a selected field the parent type does not define,
   and an input-object field whose named type the schema does not hold or holds
   as an object, interface or union. *)
C7_GapsRenderAsAny ==
    /\ pc = "failed" => err = Some("root type not found for operation type")
    /\ OperationWritten =>
         \A i \in DOMAIN FieldSelections(LastOperation.SelectionSet) :
            findFieldDefinition(Get(rootTypeOf(LastOperation, schema)),
                                FieldSelections(LastOperation.SelectionSet)[i].Name) = None
              => Entries(LastValidator)[i].val = Prim("z.any()")
    /\ pc \in {"ops", "done"} =>
         \A d \in InputObjectDeclarations :
            \A k \in DOMAIN schema.Types[d[1]].InputFields :
               IsGap(schema, NamedTypeRefOf(schema.Types[d[1]].InputFields[k].Type))
                 => BaseOf(Entries(out[d[2]].expr.of)[k].val) = Prim("z.any()")

-----------------------------------------------------------------------------
(* The generator as of src/schema/typescript.go.  It differs from part_004 in
   Generate (the types it collects and the order it writes them in) and in the
   selection sets, whose named types are written by defaultNamedTypeExpr.
   generateTypeSchema and generateOperationSchema's own lines are the same.
   Its definitions carry the prefix old. *)

RECURSIVE oldTypeRefToSchemaExprInternal(_, _, _, _)
RECURSIVE oldGenerateSelectionSetSchema(_, _, _)
RECURSIVE oldSelectionParts(_, _, _, _)

oldTypeRefToSchemaExprInternal(typeRef, sch, customNamed, allowNullable) ==
    CASE typeRef.Kind = "NON_NULL" ->
           IF typeRef.OfType = None THEN ErrorExpr("NON_NULL type without OfType")
           ELSE oldTypeRefToSchemaExprInternal(Get(typeRef.OfType), sch, customNamed, FALSE)
      [] typeRef.Kind = "LIST" ->
           withNullable(
             arrayOf(IF IsSome(typeRef.OfType)
                     THEN oldTypeRefToSchemaExprInternal(Get(typeRef.OfType), sch,
                                                         customNamed, TRUE)
                     ELSE Prim("z.any()")),
             allowNullable)
      [] OTHER ->
           withNullable(
             IF customApplies(customNamed, typeRef)
             THEN oldGenerateSelectionSetSchema(Get(customNamed).ss,
                                                Get(customNamed).fieldType, sch)
             ELSE defaultNamedTypeExpr(nameOf(typeRef), sch),
             allowNullable)

oldTypeRefToSchemaExpr(typeRef, sch, customNamed) ==
    oldTypeRefToSchemaExprInternal(typeRef, sch, customNamed, TRUE)

(* The value written for one parser.Field, typescript.go:383-430 *)
oldFieldValueExpr(s, fieldDef, sch) ==
    IF fieldDef = None THEN Prim("z.any()")
    ELSE IF IsSome(s.SelectionSet) /\ ~baseTypeKnown(Get(fieldDef).Type, sch)
    THEN Prim("z.any()")
    ELSE oldTypeRefToSchemaExpr(Get(fieldDef).Type, sch, customFor(s, Get(fieldDef).Type, sch))

oldSelectionParts(sels, i, parentType, sch) ==
    IF i > Len(sels) THEN <<>>
    ELSE writeEntry(i, sels[i].Name,
           IF sels[i].sel = "Field"
           THEN Some(oldFieldValueExpr(sels[i],
                                       findFieldDefinition(parentType, sels[i].Name), sch))
           ELSE None,
           oldSelectionParts(sels, i + 1, parentType, sch))

oldGenerateSelectionSetSchema(ss, parentType, sch) ==
    objectOf(oldSelectionParts(ss.Selections, 1, parentType, sch))

oldGenerateOperationSchema(op, sch) ==
    IF rootTypeOf(op, sch) = None
    THEN Failed(<<>>, "root type not found for operation type")
    ELSE operationDecls(operationFuncName(op),
           oldGenerateSelectionSetSchema(op.SelectionSet, Get(rootTypeOf(op, sch)), sch))

(* collectTypeRefs, typescript.go:128: the names it adds to usedTypes *)
RECURSIVE collectTypeRefs(_)
collectTypeRefs(t) ==
    CASE t.t = "NamedType" ->
           IF t.Name \notin {"String", "ID", "Int", "Float", "Boolean"} THEN {t.Name} ELSE {}
      [] t.t \in {"ListType", "NonNullType"} -> collectTypeRefs(t.Type)
      [] OTHER -> {}

(* collectSchemaTypeRefs, typescript.go:143 *)
RECURSIVE collectSchemaTypeRefs(_)
collectSchemaTypeRefs(typeRef) ==
    IF typeRef.Kind \in {"NON_NULL", "LIST"}
    THEN IF IsSome(typeRef.OfType) THEN collectSchemaTypeRefs(Get(typeRef.OfType)) ELSE {}
    ELSE IF typeRef.Name = None \/ isBuiltInScalar(Get(typeRef.Name)) THEN {}
    ELSE {Get(typeRef.Name)}

(* collectSelectionTypes, typescript.go:171: the names it adds for one
   selection and for a selection set *)
RECURSIVE collectSelectionTypes(_, _, _)
collectOneSelection(s, fieldDef, currentType, sch) ==
    CASE s.sel = "Field" ->
           IF fieldDef = None THEN {}
           ELSE collectSchemaTypeRefs(Get(fieldDef).Type)
                  \cup (IF IsSome(s.SelectionSet) /\ baseTypeKnown(Get(fieldDef).Type, sch)
                        THEN collectSelectionTypes(Get(s.SelectionSet),
                               sch.Types[getBaseTypeName(Get(fieldDef).Type)], sch)
                        ELSE {})
      [] s.sel = "InlineFragment" ->
           IF IsSome(s.TypeName)
           THEN {Get(s.TypeName)}
                  \cup (IF Get(s.TypeName) \in DOMAIN sch.Types
                        THEN collectSelectionTypes(s.SelectionSet,
                                                   sch.Types[Get(s.TypeName)], sch)
                        ELSE {})
           ELSE collectSelectionTypes(s.SelectionSet, currentType, sch)
      [] OTHER -> {}

collectSelectionTypes(ss, currentType, sch) ==
    UNION { collectOneSelection(ss.Selections[i],
              IF ss.Selections[i].sel = "Field"
              THEN findFieldDefinition(currentType, ss.Selections[i].Name) ELSE None,
              currentType, sch) : i \in DOMAIN ss.Selections }

(* usedTypes as Generate fills it, typescript.go:39-53 *)
oldUsedTypes(ops, sch) ==
    UNION { IF ops[i].ast = "OperationDefinition"
            THEN UNION {collectTypeRefs(ops[i].Variables[j].Type) : j \in DOMAIN ops[i].Variables}
                   \cup (IF IsSome(rootTypeOf(ops[i], sch))
                         THEN collectSelectionTypes(ops[i].SelectionSet,
                                                    Get(rootTypeOf(ops[i], sch)), sch)
                         ELSE {})
            ELSE {} : i \in DOMAIN ops }

(* the orders in which a range over the map can yield its keys *)
RangeOrders(m) == {order \in [1..Cardinality(m) -> m] : Range(order) = m}

(* Generate from the comment line to the operations loop, typescript.go:56-73,
   for one order of the range over usedTypes *)
oldGenerateUsedTypes(order, sch) ==
    IF order # <<>>
    THEN thenWritten(Written(<<CommentDecl("// Type definitions used in operations")>>),
                     generateTypeSchemas(order, 1, sch))
    ELSE Written(<<>>)

(* Two runs of that Generate on the same schema and operations *)

InitOld ==
    /\ \E input \in GenInputs : schema = input[1] /\ operations = input[2]
    /\ pc = "old"
    /\ used = {}
    /\ stack = <<>>
    /\ visits = <<>>
    /\ opIdx = 1
    /\ out = <<>>
    /\ err = None
    /\ run = 1
    /\ prevOut = None
    /\ tsIdx = 0
    /\ tsOut = <<>>
    /\ IdleTypeRef
    /\ IdleBuild
    /\ IdleText

OldCollectUsedTypes ==
    /\ pc = "old"
    /\ pc' = "oldtypes"
    /\ out' = <<ImportDecl>>
    /\ used' = oldUsedTypes(operations, schema)
    /\ UNCHANGED <<schema, operations, stack, visits, opIdx, err, run, prevOut, tsIdx, tsOut>>
    /\ UNCHANGED <<trVars, buildVars, tokVars, parseVars, formatVars, pipeVars>>

OldGenerateTypes ==
    /\ pc = "oldtypes"
    /\ \E order \in RangeOrders(used) :
         \E written \in {oldGenerateUsedTypes(order, schema)} :
            /\ out' = out \o written.decls
            /\ err' = written.err
            /\ pc' = IF IsSome(written.err) THEN "failed" ELSE "ops"
    /\ opIdx' = 1
    /\ UNCHANGED <<schema, operations, used, stack, visits, run, prevOut, tsIdx, tsOut>>
    /\ UNCHANGED <<trVars, buildVars, tokVars, parseVars, formatVars, pipeVars>>

OldGenerateOperation ==
    /\ pc = "ops"
    /\ opIdx <= Len(operations)
    /\ \E written \in {IF operations[opIdx].ast = "OperationDefinition"
                         THEN oldGenerateOperationSchema(operations[opIdx], schema)
                         ELSE Written(<<>>)} :
           /\ out' = out \o written.decls
           /\ err' = written.err
           /\ pc' = IF IsSome(written.err) THEN "failed" ELSE "ops"
    /\ opIdx' = opIdx + 1
    /\ UNCHANGED <<schema, operations, used, stack, visits, run, prevOut, tsIdx, tsOut>>
    /\ UNCHANGED <<trVars, buildVars, tokVars, parseVars, formatVars, pipeVars>>

OldReturn ==
    /\ pc = "ops"
    /\ opIdx > Len(operations)
    /\ pc' = "done"
    /\ UNCHANGED <<schema, operations, used, stack, visits, opIdx, out, err, run, prevOut,
                   tsIdx, tsOut>>
    /\ UNCHANGED <<trVars, buildVars, tokVars, parseVars, formatVars, pipeVars>>

(* the caller generates once more from the same schema and operations *)
Rerun ==
    /\ pc \in {"done", "failed"}
    /\ run = 1
    /\ run' = 2
    /\ prevOut' = Some(out)
    /\ pc' = "old"
    /\ used' = {}
    /\ out' = <<>>
    /\ err' = None
    /\ opIdx' = 1
    /\ UNCHANGED <<schema, operations, stack, visits, tsIdx, tsOut>>
    /\ UNCHANGED <<trVars, buildVars, tokVars, parseVars, formatVars, pipeVars>>

NextOld ==
    \/ OldCollectUsedTypes
    \/ OldGenerateTypes
    \/ OldGenerateOperation
    \/ OldReturn
    \/ Rerun

SpecOld == InitOld /\ [][NextOld]_vars

(* the types declared by the time the operations loop starts *)
DeclaredTypes == {out[i].name : i \in {j \in DOMAIN out : out[j].d = "type"}}

(* C3: the named types generation declares are exactly the non-built-in types
   of the schema that the variables' types reach through List/NonNull and
   input-object fields and that are input objects, enums or scalars: no object,
   interface or union, and no type that only a selection set reaches. *)
C3_DeclaredTypesAreInputClosure ==
    pc = "ops" /\ opIdx = 1 => DeclaredTypes = ReachableTypes(schema, operations)

(* C5: a second run on the same schema and operations writes the same
   declarations in the same order as the first. *)
C5_RunsWriteSameDeclarations ==
    run = 2 /\ pc \in {"done", "failed"} => out = Get(prevOut)

-----------------------------------------------------------------------------
(* Schema construction, schema/schema.go.  Description, Interfaces and Args
   are carried along by the code and read by nothing modelled here; they are
   left out of the records. *)

MaxNodes == 3     \* definitions in the SDL input, types in the introspection response

(* parser AST nodes of schema definitions *)
AstTypeDefinition(name, fields) == [ast |-> "TypeDefinition", Name |-> name, Fields |-> fields]
AstInputTypeDefinition(name, fields) ==
    [ast |-> "InputTypeDefinition", Name |-> name, Fields |-> fields]
AstEnumTypeDefinition(name, values) ==
    [ast |-> "EnumTypeDefinition", Name |-> name, Values |-> values]
AstScalarTypeDefinition(name) == [ast |-> "ScalarTypeDefinition", Name |-> name]
AstInterfaceTypeDefinition(name, fields) ==
    [ast |-> "InterfaceTypeDefinition", Name |-> name, Fields |-> fields]
AstUnionTypeDefinition(name, types) ==
    [ast |-> "UnionTypeDefinition", Name |-> name, Types |-> types]
AstField(name, type) == [Name |-> name, Type |-> type]

(* convertASTType, schema.go:401 *)
RECURSIVE convertASTType(_)
convertASTType(t) ==
    CASE t.t = "NamedType" -> [Kind |-> "SCALAR", Name |-> Some(t.Name), OfType |-> None]
      [] t.t = "ListType" ->
           [Kind |-> "LIST", Name |-> None, OfType |-> Some(convertASTType(t.Type))]
      [] t.t = "NonNullType" ->
           [Kind |-> "NON_NULL", Name |-> None, OfType |-> Some(convertASTType(t.Type))]
      [] OTHER -> [Kind |-> "SCALAR", Name |-> None, OfType |-> None]

(* convertTypeRef, schema.go:266 *)
RECURSIVE convertTypeRef(_)
convertTypeRef(ref) ==
    [Kind |-> ref.Kind, Name |-> ref.Name,
     OfType |-> IF IsSome(ref.OfType) THEN Some(convertTypeRef(Get(ref.OfType))) ELSE None]

(* schema.Types[name] = typeDef *)
PutType(types, typeDef) ==
    [n \in DOMAIN types \cup {typeDef.Name} |->
        IF n = typeDef.Name THEN typeDef ELSE types[n]]

EmptySchema == [Types |-> <<>>, Query |-> None, Mutation |-> None, Subscription |-> None]

(* addDefaultScalarTypes, schema.go:390 *)
addDefaultScalarTypes(sch) ==
    [sch EXCEPT !.Types =
        [n \in DOMAIN sch.Types \cup {"String", "Int", "Float", "Boolean", "ID"} |->
            IF n \in {"String", "Int", "Float", "Boolean", "ID"}
            THEN TypeDef(n, "SCALAR", <<>>, <<>>, <<>>, <<>>)
            ELSE sch.Types[n]]]

convertFields(fields) ==
    [i \in DOMAIN fields |-> FieldDef(fields[i].Name, convertASTType(fields[i].Type))]

(* the TypeDefinition one iteration of the loop of buildSchemaFromAST makes of
   node n, schema.go:289-374; None in the default case *)
typeDefOfNode(n) ==
    CASE n.ast = "TypeDefinition" ->
           Some(TypeDef(n.Name, "OBJECT", convertFields(n.Fields), <<>>, <<>>, <<>>))
      [] n.ast = "InputTypeDefinition" ->
           Some(TypeDef(n.Name, "INPUT_OBJECT", <<>>, convertFields(n.Fields), <<>>, <<>>))
      [] n.ast = "EnumTypeDefinition" ->
           Some(TypeDef(n.Name, "ENUM", <<>>, <<>>, n.Values, <<>>))
      [] n.ast = "ScalarTypeDefinition" ->
           Some(TypeDef(n.Name, "SCALAR", <<>>, <<>>, <<>>, <<>>))
      [] n.ast = "InterfaceTypeDefinition" ->
           Some(TypeDef(n.Name, "INTERFACE", convertFields(n.Fields), <<>>, <<>>, <<>>))
      [] n.ast = "UnionTypeDefinition" ->
           Some(TypeDef(n.Name, "UNION", <<>>, <<>>, <<>>, n.Types))
      [] OTHER -> None

(* one iteration of the loop of buildSchemaFromAST, schema.go:288-377 *)
addNode(sch, n, typeDef) ==
    IF typeDef = None THEN sch
    ELSE [Types |-> PutType(sch.Types, Get(typeDef)),
          Query |-> IF n.ast = "TypeDefinition" /\ n.Name = "Query"
                    THEN typeDef ELSE sch.Query,
          Mutation |-> IF n.ast = "TypeDefinition" /\ n.Name = "Mutation"
                       THEN typeDef ELSE sch.Mutation,
          Subscription |-> IF n.ast = "TypeDefinition" /\ n.Name = "Subscription"
                           THEN typeDef ELSE sch.Subscription]

(* the TypeDefinition buildSchemaFromIntrospection makes of type t, schema.go:203-241 *)
typeDefOfIntrospection(t) ==
    TypeDef(Get(t.Name), t.Kind,
            [i \in DOMAIN t.Fields |->
                FieldDef(t.Fields[i].Name, convertTypeRef(t.Fields[i].Type))],
            [i \in DOMAIN t.InputFields |->
                FieldDef(t.InputFields[i].Name, convertTypeRef(t.InputFields[i].Type))],
            t.EnumValues, t.PossibleTypes)

(* one iteration of the loop of buildSchemaFromIntrospection, schema.go:198-257 *)
addIntrospectionType(sch, intro, t) ==
    IF t.Name = None THEN sch
    ELSE [Types |-> PutType(sch.Types, typeDefOfIntrospection(t)),
          Query |-> IF Get(t.Name) = intro.QueryType.Name
                    THEN Some(typeDefOfIntrospection(t)) ELSE sch.Query,
          Mutation |-> IF IsSome(intro.MutationType)
                            /\ Get(t.Name) = Get(intro.MutationType).Name
                       THEN Some(typeDefOfIntrospection(t)) ELSE sch.Mutation,
          Subscription |-> IF IsSome(intro.SubscriptionType)
                                /\ Get(t.Name) = Get(intro.SubscriptionType).Name
                           THEN Some(typeDefOfIntrospection(t)) ELSE sch.Subscription]

(* Inputs of schema construction *)

SchemaNodes ==
    { AstTypeDefinition("Query", << AstField("user", NamedType("User")) >>),
      AstTypeDefinition("User", << AstField("id", NonNullType(NamedType("ID"))) >>),
      AstTypeDefinition("Mutation", << AstField("ping", NamedType("Boolean")) >>),
      AstTypeDefinition("Boolean", << AstField("yes", NamedType("Int")) >>),
      AstInputTypeDefinition("A", << AstField("b", ListType(NamedType("String"))) >>),
      AstInputTypeDefinition("Query", << AstField("q", NamedType("String")) >>),
      AstEnumTypeDefinition("ID", << "X", "Y" >>),
      AstScalarTypeDefinition("String"),
      AstInterfaceTypeDefinition("Float", << AstField("f", NamedType("Float")) >>),
      AstUnionTypeDefinition("Int", << "User", "A" >>),
      OperationDefinition(Query, None, <<>>, SelectionSet(<< Leaf("user") >>)) }

IntrospectionType(kind, name, fields, inputFields, enumValues, possibleTypes) ==
    [Kind |-> kind, Name |-> name, Fields |-> fields, InputFields |-> inputFields,
     EnumValues |-> enumValues, PossibleTypes |-> possibleTypes]

IntrospectionTypes ==
    { IntrospectionType("OBJECT", Some("Query"),
        << FieldDef("user", Named("OBJECT", "User")) >>, <<>>, <<>>, <<>>),
      IntrospectionType("OBJECT", Some("Root"),
        << FieldDef("users", NonNull(List(NonNull(Named("OBJECT", "User"))))) >>,
        <<>>, <<>>, <<>>),
      IntrospectionType("OBJECT", Some("Mutation"),
        << FieldDef("ping", Named("SCALAR", "Boolean")) >>, <<>>, <<>>, <<>>),
      IntrospectionType("INPUT_OBJECT", Some("A"), <<>>,
        << FieldDef("e", NonNull(Named("ENUM", "E"))) >>, <<>>, <<>>),
      IntrospectionType("ENUM", Some("E"), <<>>, <<>>, << "X", "Y" >>, <<>>),
      IntrospectionType("SCALAR", Some("String"), <<>>, <<>>, <<>>, <<>>),
      IntrospectionType("OBJECT", None, <<>>, <<>>, <<>>, <<>>) }

IntrospectionResponses ==
    { [QueryType |-> [Name |-> q], MutationType |-> m, SubscriptionType |-> None,
       Types |-> types] :
        q \in {"Query", "Root", ""},
        m \in {None, Some([Name |-> "Mutation"])},
        types \in {<<>>} \cup SeqsUpTo(IntrospectionTypes, MaxNodes) }

BuildInputs ==
    { [from |-> "ast", nodes |-> nodes] :
        nodes \in {<<>>} \cup SeqsUpTo(SchemaNodes, MaxNodes) }
      \cup { [from |-> "introspection", intro |-> intro] : intro \in IntrospectionResponses }

(* The two constructors, one loop iteration at a time *)

InitBuild ==
    /\ buildInput \in BuildInputs
    /\ nodeIdx = 1
    /\ built = None
    /\ returned = None
    /\ IdleTypeRef
    /\ IdleGen
    /\ IdleText

Returned(sch, error) == [schema |-> sch, err |-> error]

(* buildSchemaFromAST up to its loop, schema.go:280-286 *)
AddDefaultScalarTypes ==
    /\ buildInput.from = "ast"
    /\ built = None
    /\ returned = None
    /\ built' = Some(addDefaultScalarTypes(EmptySchema))
    /\ UNCHANGED <<buildInput, nodeIdx, returned, trVars, genVars, tokVars, parseVars, formatVars,
                   pipeVars>>

AddNode ==
    /\ buildInput.from = "ast"
    /\ IsSome(built)
    /\ returned = None
    /\ nodeIdx <= Len(buildInput.nodes)
    /\ built' = Some(addNode(Get(built), buildInput.nodes[nodeIdx],
                             typeDefOfNode(buildInput.nodes[nodeIdx])))
    /\ nodeIdx' = nodeIdx + 1
    /\ UNCHANGED <<buildInput, returned, trVars, genVars, tokVars, parseVars, formatVars, pipeVars>>

(* the validation and the return of buildSchemaFromAST, schema.go:381-386 *)
ReturnFromAST ==
    /\ buildInput.from = "ast"
    /\ IsSome(built)
    /\ returned = None
    /\ nodeIdx > Len(buildInput.nodes)
    /\ returned' = Some(IF Get(built).Query = None
                        THEN Returned(None, Some("schema must define a Query type"))
                        ELSE Returned(built, None))
    /\ UNCHANGED <<buildInput, nodeIdx, built, trVars, genVars, tokVars, parseVars, formatVars,
                   pipeVars>>

(* buildSchemaFromIntrospection up to its loop, schema.go:194-196 *)
MakeSchema ==
    /\ buildInput.from = "introspection"
    /\ built = None
    /\ returned = None
    /\ built' = Some(EmptySchema)
    /\ UNCHANGED <<buildInput, nodeIdx, returned, trVars, genVars, tokVars, parseVars, formatVars,
                   pipeVars>>

AddIntrospectionType ==
    /\ buildInput.from = "introspection"
    /\ IsSome(built)
    /\ returned = None
    /\ nodeIdx <= Len(buildInput.intro.Types)
    /\ built' = Some(addIntrospectionType(Get(built), buildInput.intro,
                                          buildInput.intro.Types[nodeIdx]))
    /\ nodeIdx' = nodeIdx + 1
    /\ UNCHANGED <<buildInput, returned, trVars, genVars, tokVars, parseVars, formatVars, pipeVars>>

(* return schema, nil; schema.go:259 *)
ReturnFromIntrospection ==
    /\ buildInput.from = "introspection"
    /\ IsSome(built)
    /\ returned = None
    /\ nodeIdx > Len(buildInput.intro.Types)
    /\ returned' = Some(Returned(built, None))
    /\ UNCHANGED <<buildInput, nodeIdx, built, trVars, genVars, tokVars, parseVars, formatVars,
                   pipeVars>>

NextBuild ==
    \/ AddDefaultScalarTypes
    \/ AddNode
    \/ ReturnFromAST
    \/ MakeSchema
    \/ AddIntrospectionType
    \/ ReturnFromIntrospection

SpecBuild == InitBuild /\ [][NextBuild]_vars

(* whether the input defines a Query root type *)
DefinesQuery ==
    IF buildInput.from = "ast"
    THEN \E i \in DOMAIN buildInput.nodes :
            buildInput.nodes[i].ast = "TypeDefinition" /\ buildInput.nodes[i].Name = "Query"
    ELSE \E i \in DOMAIN buildInput.intro.Types :
            buildInput.intro.Types[i].Name = Some(buildInput.intro.QueryType.Name)

(* C9: a constructor that returns a Schema and no error returns one whose
   Query is set, and on an input that defines no Query root type it returns an
   error and no Schema. *)
C9_ReturnedSchemaHasQuery ==
    IsSome(returned) =>
      /\ Get(returned).err = None =>
           IsSome(Get(returned).schema) /\ IsSome(Get(Get(returned).schema).Query)
      /\ ~DefinesQuery => IsSome(Get(returned).err) /\ Get(returned).schema = None

(* C10: when buildSchemaFromAST returns a Schema, its Types maps String, Int,
   Float, Boolean and ID each to the SCALAR definition of that name without
   fields, input fields, enum values or possible types, whatever the input
   defines under those names. *)
C10_BuiltInScalarsKept ==
    IsSome(returned) /\ buildInput.from = "ast" /\ Get(returned).err = None =>
      \A n \in BuiltInScalars :
         /\ n \in DOMAIN Get(Get(returned).schema).Types
         /\ Get(Get(returned).schema).Types[n] = TypeDef(n, "SCALAR", <<>>, <<>>, <<>>, <<>>)

-----------------------------------------------------------------------------
(* tokenizer/tokenizer.go.  The input is the []rune the goroutine of Tokenize
   reads from the io.Reader, a string here; pos counts from 0 as in Go.  A
   TokenType is named by what TokenType.String returns for it. *)

Token(type, literal, line, column) ==
    [Type |-> type, Literal |-> literal, Line |-> line, Column |-> column]

keywords ==
    ("query" :> "QUERY") @@ ("mutation" :> "MUTATION") @@
    ("subscription" :> "SUBSCRIPTION") @@ ("fragment" :> "FRAGMENT") @@
    ("on" :> "ON") @@ ("type" :> "TYPE") @@ ("schema" :> "SCHEMA") @@
    ("scalar" :> "SCALAR") @@ ("enum" :> "ENUM") @@ ("interface" :> "INTERFACE") @@
    ("union" :> "UNION") @@ ("input" :> "INPUT") @@ ("extend" :> "EXTEND") @@
    ("directive" :> "DIRECTIVE") @@ ("implements" :> "IMPLEMENTS")

lookupIdent(ident) == IF ident \in DOMAIN keywords THEN keywords[ident] ELSE "IDENT"

(* input[pos] and input[from:to] *)
RuneAt(input, pos) == SubSeq(input, pos + 1, pos + 1)
Slice(input, from, to) == SubSeq(input, from + 1, to)

isLetter(ch) == ch \in Range(LowerLetters) \cup Range(UpperLetters) \cup {"_"}
isDigit(ch) == ch \in {"0", "1", "2", "3", "4", "5", "6", "7", "8", "9"}
isAlphaNumeric(ch) == isLetter(ch) \/ isDigit(ch)
IsSpace(ch) == ch \in {" ", "\t", "\n", "\r", "\f"}

(* pos, line and col of the closure nextToken *)
Cursor(pos, line, col) == [pos |-> pos, line |-> line, col |-> col]
Advance(sc, n) == Cursor(sc.pos + n, sc.line, sc.col + n)
(* one rune passed inside white space, a string or a doc-string *)
PassRune(input, sc) ==
    IF RuneAt(input, sc.pos) = "\n" THEN Cursor(sc.pos + 1, sc.line + 1, 1)
    ELSE Advance(sc, 1)
Lexed(tok, sc) == [tok |-> tok, sc |-> sc]

RECURSIVE skipWhitespace(_, _)
skipWhitespace(input, sc) ==
    IF sc.pos < Len(input) /\ IsSpace(RuneAt(input, sc.pos))
    THEN skipWhitespace(input, PassRune(input, sc))
    ELSE sc

RECURSIVE identifierEnd(_, _)
identifierEnd(input, pos) ==
    IF pos < Len(input) /\ isAlphaNumeric(RuneAt(input, pos))
    THEN identifierEnd(input, pos + 1) ELSE pos

identifierToken(input, sc, end) ==
    Lexed(Token(lookupIdent(Slice(input, sc.pos, end)), Slice(input, sc.pos, end),
                sc.line, sc.col),
          Advance(sc, end - sc.pos))

readIdentifier(input, sc) == identifierToken(input, sc, identifierEnd(input, sc.pos))

RECURSIVE digitsEnd(_, _)
digitsEnd(input, pos) ==
    IF pos < Len(input) /\ isDigit(RuneAt(input, pos)) THEN digitsEnd(input, pos + 1) ELSE pos

numberToken(input, sc, type, end) ==
    Lexed(Token(type, Slice(input, sc.pos, end), sc.line, sc.col), Advance(sc, end - sc.pos))

(* the fraction of readNumber, from the end of the integer digits *)
numberFraction(input, sc, intEnd) ==
    IF /\ intEnd < Len(input) /\ RuneAt(input, intEnd) = "."
       /\ intEnd + 1 < Len(input) /\ isDigit(RuneAt(input, intEnd + 1))
    THEN numberToken(input, sc, "FLOAT", digitsEnd(input, intEnd + 1))
    ELSE numberToken(input, sc, "INT", intEnd)

readNumber(input, sc) ==
    numberFraction(input, sc,
        digitsEnd(input, IF RuneAt(input, sc.pos) = "-" THEN sc.pos + 1 ELSE sc.pos))

(* the loop of readString, from the rune after the opening quote *)
RECURSIVE stringBody(_, _)
stringBody(input, sc) ==
    IF sc.pos < Len(input) /\ RuneAt(input, sc.pos) # "\""
    THEN IF RuneAt(input, sc.pos) = "\\" /\ sc.pos + 1 < Len(input)
         THEN stringBody(input, Advance(sc, 2))
         ELSE stringBody(input, PassRune(input, sc))
    ELSE sc

stringToken(input, start, body) ==
    IF body.pos >= Len(input)
    THEN Lexed(Token("ILLEGAL", Slice(input, start.pos, Len(input)), start.line, start.col),
               body)
    ELSE Lexed(Token("STRING", Slice(input, start.pos, body.pos + 1), start.line, start.col),
               Advance(body, 1))

readString(input, sc) == stringToken(input, sc, stringBody(input, Advance(sc, 1)))

IsTripleQuote(input, pos) ==
    RuneAt(input, pos) = "\"" /\ RuneAt(input, pos + 1) = "\"" /\ RuneAt(input, pos + 2) = "\""

(* the loop of readTripleQuotedString, from the rune after the opening quotes:
   where it stops, and whether it stopped at closing quotes *)
RECURSIVE tripleBody(_, _)
tripleBody(input, sc) ==
    IF sc.pos + 2 < Len(input)
    THEN IF IsTripleQuote(input, sc.pos)
         THEN [closed |-> TRUE, sc |-> Advance(sc, 3)]
         ELSE tripleBody(input, PassRune(input, sc))
    ELSE [closed |-> FALSE, sc |-> sc]

tripleToken(input, start, body) ==
    IF body.closed
    THEN Lexed(Token("STRING", Slice(input, start.pos, body.sc.pos), start.line, start.col),
               body.sc)
    ELSE Lexed(Token("ILLEGAL", Slice(input, start.pos, Len(input)), start.line, start.col),
               body.sc)

readTripleQuotedString(input, sc) == tripleToken(input, sc, tripleBody(input, Advance(sc, 3)))

RECURSIVE commentEnd(_, _)
commentEnd(input, pos) ==
    IF pos < Len(input) /\ RuneAt(input, pos) # "\n" THEN commentEnd(input, pos + 1) ELSE pos

readComment(input, sc) == numberToken(input, sc, "COMMENT", commentEnd(input, sc.pos))

punctuators ==
    ("{" :> "LBRACE") @@ ("}" :> "RBRACE") @@ ("[" :> "LBRACKET") @@ ("]" :> "RBRACKET") @@
    ("(" :> "LPAREN") @@ (")" :> "RPAREN") @@ (":" :> "COLON") @@ ("," :> "COMMA") @@
    ("=" :> "EQUALS") @@ ("@" :> "AT") @@ ("$" :> "DOLLAR") @@ ("!" :> "BANG") @@
    ("|" :> "PIPE") @@ ("&" :> "AMP")

(* an ILLEGAL token for the one rune at pos, and lexing goes on behind it *)
illegalRuneTakesRest(input, sc) ==
    Lexed(Token("ILLEGAL", Slice(input, sc.pos, Len(input)), sc.line, sc.col),
          Advance(sc, Len(input) - sc.pos))

illegalRune(input, sc) ==
    Lexed(Token("ILLEGAL", RuneAt(input, sc.pos), sc.line, sc.col), Advance(sc, 1))

(* the switch of nextToken on ch = input[pos], after skipWhitespace *)
tokenAt(input, sc, ch) ==
    CASE ch \in DOMAIN punctuators ->
           Lexed(Token(punctuators[ch], ch, sc.line, sc.col), Advance(sc, 1))
      [] ch = "." ->
           IF /\ sc.pos + 2 < Len(input)
              /\ RuneAt(input, sc.pos + 1) = "." /\ RuneAt(input, sc.pos + 2) = "."
           THEN Lexed(Token("SPREAD", "...", sc.line, sc.col), Advance(sc, 3))
           ELSE illegalRune(input, sc)
      [] ch = "#" -> readComment(input, sc)
      [] ch = "\"" ->
           IF sc.pos + 2 < Len(input) /\ IsTripleQuote(input, sc.pos)
           THEN readTripleQuotedString(input, sc)
           ELSE readString(input, sc)
      [] OTHER ->
           IF isLetter(ch) THEN readIdentifier(input, sc)
           ELSE IF \/ isDigit(ch)
                   \/ (ch = "-" /\ sc.pos + 1 < Len(input) /\ isDigit(RuneAt(input, sc.pos + 1)))
                THEN readNumber(input, sc)
                ELSE illegalRune(input, sc)

tokenAfterSpace(input, sc) ==
    IF sc.pos >= Len(input) THEN Lexed(Token("EOF", "", sc.line, sc.col), sc)
    ELSE tokenAt(input, sc, RuneAt(input, sc.pos))

nextToken(input, sc) == tokenAfterSpace(input, skipWhitespace(input, sc))

(* every token the goroutine of Tokenize sends before it closes the channel *)
RECURSIVE tokensFrom(_, _)
sendToken(input, lexed) ==
    IF lexed.tok.Type = "EOF" THEN <<lexed.tok>>
    ELSE <<lexed.tok>> \o tokensFrom(input, lexed.sc)
tokensFrom(input, sc) == sendToken(input, nextToken(input, sc))

Tokenize(input) == tokensFrom(input, Cursor(0, 1, 1))

(* Inputs of the tokenizer: every text of up to MaxText runes over Alphabet,
   and a few longer ones. *)
MaxText == 3
Alphabet == {"a", "1", " ", "\n", "\"", ".", "#", "-", "?", "{", "\\"}
LongTexts ==
    {"\"\"\"a\nb\"\"\" x", "query { a }", "...a ..", "-1.5.x", "# c\n\"s\" @",
     "\"\"\"\"a", "\"a\\\"b\" ~", "type T { f(a: [Int!]! = 1): T | U & V }",
     "\"\\\n\" a", "\"\"\"a\\\"\"\"b\"\"\" c", "a \"\"\"b c", "a \"b\nc",
     "\"a\\\\\" b", "\"\"\"\n\\\n\"\"\"\n a"}
RECURSIVE TextsOfLength(_)
TextsOfLength(n) ==
    IF n = 0 THEN {""} ELSE {t \o c : t \in TextsOfLength(n - 1), c \in Alphabet}
TokInputs == LongTexts \cup UNION {TextsOfLength(n) : n \in 0..MaxText}

InitTok ==
    /\ tkInput \in TokInputs
    /\ tkPos = 0 /\ tkLine = 1 /\ tkCol = 1
    /\ tkCh = <<>>
    /\ tkClosed = FALSE
    /\ IdleTypeRef /\ IdleGen /\ IdleBuild /\ IdleParse /\ IdleFormat /\ IdlePipe

EOFSent == tkCh # <<>> /\ tkCh[Len(tkCh)].Type = "EOF"

(* one turn of the loop of the goroutine: token := nextToken(); ch <- token *)
NextToken ==
    /\ ~tkClosed /\ ~EOFSent
    /\ \E lexed \in {nextToken(tkInput, Cursor(tkPos, tkLine, tkCol))} :
          /\ tkCh' = Append(tkCh, lexed.tok)
          /\ tkPos' = lexed.sc.pos /\ tkLine' = lexed.sc.line /\ tkCol' = lexed.sc.col
    /\ UNCHANGED <<tkInput, tkClosed, trVars, genVars, buildVars, parseVars, formatVars, pipeVars>>

(* the loop was left at EOF: the deferred close(ch) runs *)
CloseTokens ==
    /\ ~tkClosed /\ EOFSent
    /\ tkClosed' = TRUE
    /\ UNCHANGED <<tkInput, tkPos, tkLine, tkCol, tkCh, trVars, genVars, buildVars,
                   parseVars, formatVars, pipeVars>>

NextTok == NextToken \/ CloseTokens

SpecTok == InitTok /\ [][NextTok]_vars
FairSpecTok == SpecTok /\ WF_vars(NextTok)

(* where the next token starts: the first rune from pos on that is no white
   space, or the end of the input *)
TokenStart(input, pos) ==
    CHOOSE q \in pos..Len(input) :
       /\ q = Len(input) \/ ~IsSpace(RuneAt(input, q))
       /\ \A r \in pos..(q - 1) : IsSpace(RuneAt(input, r))

(* the rune at q starts no token of the language: it is no punctuator, quote,
   comment sign, letter or digit, no "." that starts "..." and no "-" before a
   digit *)
Unrecognized(input, q) ==
    /\ RuneAt(input, q) \notin DOMAIN punctuators \cup {"#", "\""}
    /\ ~isAlphaNumeric(RuneAt(input, q))
    /\ RuneAt(input, q) = "." => ~(q + 3 <= Len(input) /\ Slice(input, q, q + 3) = "...")
    /\ RuneAt(input, q) = "-" => ~(q + 1 < Len(input) /\ isDigit(RuneAt(input, q + 1)))

EOFCount == Cardinality({i \in DOMAIN tkCh : tkCh[i].Type = "EOF"})

TokenStreamEndsInOneEOF ==
    /\ Len(tkCh) <= Len(tkInput) + 1
    /\ \A i \in DOMAIN tkCh : tkCh[i].Type = "EOF" => i = Len(tkCh)
    /\ tkClosed => EOFCount = 1 /\ tkPos = Len(tkInput)

UnrecognizedRuneIsOneToken ==
    \A q \in {TokenStart(tkInput, tkPos)} :
       tkCh' # tkCh /\ q < Len(tkInput) /\ Unrecognized(tkInput, q) =>
          /\ tkCh' = Append(tkCh, tkCh'[Len(tkCh')])
          /\ tkCh'[Len(tkCh')].Type = "ILLEGAL"
          /\ tkCh'[Len(tkCh')].Literal = RuneAt(tkInput, q)
          /\ tkPos' = q + 1
          /\ ~tkClosed'

(* C20: on every input the tokens sent are finitely many, EOF is sent exactly
   once, as the last token, and the channel is closed after it; a rune that
   starts no token is sent as one ILLEGAL token whose literal is that rune, and
   the next token is read from the rune after it. *)
C20_TokenStreamEndsInOneEOF ==
    /\ []TokenStreamEndsInOneEOF
    /\ [][UnrecognizedRuneIsOneToken]_vars
    /\ <>tkClosed

C20_Witness ==
    /\ tkClosed
    /\ \E i \in DOMAIN tkCh :
          /\ tkCh[i].Type = "ILLEGAL" /\ Len(tkCh[i].Literal) = 1
          /\ i + 1 < Len(tkCh)

-----------------------------------------------------------------------------
(* parser/parser.go, the parser.  A parse function of the code reads and
   updates the *parser and returns a node; here it maps the parser to
   Parsed(p, v), the parser afterwards and the node.  A function of several
   statements is the composition of its statements, each an operator from
   Parsed to Parsed whose v is the node (or the slice) under construction.
   A nil slice and an empty one are both <<>>.

   panic(...) sets p.panic and is never recovered: every statement after it
   leaves the Parsed unchanged (its first test, r.p.panic # <<>>), loops stop,
   and the goroutine of Parse ends in "panicked".  The record of a panic keeps what the message of the code
   prints (message, kind, line, column; positioned is FALSE for a message
   without "at line %d, column %d") and, for the properties only, cause: the
   token the code was looking at when it gave up. *)

ZeroToken == Token("ILLEGAL", "", 0, 0)
ClosedToken == Token("EOF", "", 0, 0)

Panicked(q) == IsSome(q.panic)
Parsed(q, v) == [p |-> q, v |-> v]

(* p.currentToken; after a panic no statement reads it any more *)
cur(q) == IF q.panic # <<>> THEN Token("PANIC", "", 0, 0) ELSE q.currentToken

parserNextToken(q) ==
    [q EXCEPT !.currentToken = q.peekToken,
              !.peekToken = IF q.tokens = <<>> THEN ClosedToken ELSE Head(q.tokens),
              !.tokens = IF q.tokens = <<>> THEN <<>> ELSE Tail(q.tokens)]

newParser(tokens) ==
    parserNextToken(parserNextToken(
        [tokens |-> tokens, currentToken |-> ZeroToken, peekToken |-> ZeroToken,
         pendingComment |-> <<>>, panic |-> None]))

Panic(q, message, kind, line, column, positioned, cause) ==
    IF Panicked(q) THEN q
    ELSE [q EXCEPT !.panic = Some([message |-> message, kind |-> kind, line |-> line,
                                   column |-> column, positioned |-> positioned,
                                   cause |-> cause])]

(* panic(fmt.Sprintf("<message>, got %s at line %d, column %d", p.currentToken...)) *)
PanicAtCurrent(q, message) ==
    Panic(q, message, cur(q).Type, cur(q).Line, cur(q).Column, TRUE, cur(q))
(* panic("unexpected EOF in <body>") *)
PanicEOF(q, message) == Panic(q, message, "", 0, 0, FALSE, cur(q))

RECURSIVE TrimLeft(_)
TrimLeft(s) ==
    IF Len(s) > 0 /\ IsSpace(SubSeq(s, 1, 1)) THEN TrimLeft(SubSeq(s, 2, Len(s))) ELSE s
RECURSIVE TrimRight(_)
TrimRight(s) ==
    IF Len(s) > 0 /\ IsSpace(SubSeq(s, Len(s), Len(s)))
    THEN TrimRight(SubSeq(s, 1, Len(s) - 1)) ELSE s
TrimSpace(s) == TrimRight(TrimLeft(s))
HasPrefix(s, prefix) == Len(s) >= Len(prefix) /\ SubSeq(s, 1, Len(prefix)) = prefix
HasSuffix(s, suffix) ==
    Len(s) >= Len(suffix) /\ SubSeq(s, Len(s) - Len(suffix) + 1, Len(s)) = suffix

appendPending(q, content) == [q EXCEPT !.pendingComment = Append(q.pendingComment, content)]

handleComment(q) ==
    parserNextToken(
        appendPending(q, TrimSpace(SubSeq(q.currentToken.Literal, 2,
                                          Len(q.currentToken.Literal)))))

docContent(literal) == TrimSpace(SubSeq(literal, 4, Len(literal) - 3))

handleDocumentation(q) ==
    parserNextToken(
        IF /\ HasPrefix(q.currentToken.Literal, "\"\"\"")
           /\ HasSuffix(q.currentToken.Literal, "\"\"\"")
           /\ docContent(q.currentToken.Literal) # ""
        THEN appendPending(q, docContent(q.currentToken.Literal))
        ELSE q)

RECURSIVE skipCommentsAndDocs(_)
skipCommentsAndDocs(q) ==
    CASE cur(q).Type = "COMMENT" -> skipCommentsAndDocs(handleComment(q))
      [] cur(q).Type = "STRING" /\ HasPrefix(q.currentToken.Literal, "\"\"\"") ->
           skipCommentsAndDocs(handleDocumentation(q))
      [] OTHER -> q

(* extractMetadata with the pending comments left in place *)
extractMetadataKeepsPending(r) ==
    IF r.p.panic # <<>> THEN r ELSE Parsed(r.p, [r.v EXCEPT !.Metadata = r.p.pendingComment])

(* metadata := p.extractMetadata(), stored in the node under construction *)
extractMetadata(r) ==
    IF r.p.panic # <<>> THEN r
    ELSE Parsed([r.p EXCEPT !.pendingComment = <<>>],
                [r.v EXCEPT !.Metadata = r.p.pendingComment])

isNameToken(tokenType) == tokenType = "IDENT" \/ tokenType \in Range(keywords)

(* expectToken(p, expected) and the p.nextToken() that follows every call of it *)
expectToken(r, expected) ==
    IF r.p.panic # <<>> THEN r
    ELSE IF cur(r.p).Type # expected
         THEN Parsed(PanicAtCurrent(r.p, "expected " \o expected), r.v)
         ELSE Parsed(parserNextToken(r.p), r.v)

(* p.nextToken() as a statement *)
next(r) == IF r.p.panic # <<>> THEN r ELSE Parsed(parserNextToken(r.p), r.v)

(* name := p.currentToken.Literal; p.nextToken(), after the test that the token
   is an IDENT (takeIdent) or satisfies isNameToken (takeName) *)
takeLiteral(r, field) ==
    Parsed(parserNextToken(r.p), [r.v EXCEPT ![field] = r.p.currentToken.Literal])
takeIdent(r, field, message) ==
    IF r.p.panic # <<>> THEN r
    ELSE IF cur(r.p).Type # "IDENT" THEN Parsed(PanicAtCurrent(r.p, message), r.v)
    ELSE takeLiteral(r, field)
takeName(r, field, message) ==
    IF r.p.panic # <<>> THEN r
    ELSE IF ~isNameToken(cur(r.p).Type) THEN Parsed(PanicAtCurrent(r.p, message), r.v)
    ELSE takeLiteral(r, field)

(* the node gets the value a nested parse function returned, and the parser
   goes on where that function left it *)
setField(r, field, sub) == Parsed(sub.p, [r.v EXCEPT ![field] = sub.v])
appendTo(r, sub) == Parsed(sub.p, Append(r.v, sub.v))
(* a Go pointer to the value returned *)
pointerTo(sub) == Parsed(sub.p, Some(sub.v))

(* The nodes of the parser with all their fields, at their Go zero values. *)
StringValue(value) == [val |-> "StringValue", Value |-> value]
IntValue(value) == [val |-> "IntValue", Value |-> value]
FloatValue(value) == [val |-> "FloatValue", Value |-> value]
BooleanValue(value) == [val |-> "BooleanValue", Value |-> value]
NullValue == [val |-> "NullValue"]
Variable(name) == [val |-> "Variable", Name |-> name]

ZeroArgument == [Name |-> "", Value |-> None]
ZeroDirective == [Name |-> "", Arguments |-> <<>>]
ZeroField ==
    [sel |-> "Field", Alias |-> None, Name |-> "", Arguments |-> <<>>, Directives |-> <<>>,
     SelectionSet |-> None, Metadata |-> <<>>]
ZeroFragmentSpread ==
    [sel |-> "FragmentSpread", Name |-> "", Directives |-> <<>>, Metadata |-> <<>>]
ZeroInlineFragment ==
    [sel |-> "InlineFragment", TypeName |-> None, Directives |-> <<>>,
     SelectionSet |-> SelectionSet(<<>>), Metadata |-> <<>>]
ZeroVariableDefinition ==
    [Name |-> "", Type |-> None, DefaultValue |-> None, Metadata |-> <<>>]
ZeroOperationDefinition ==
    [ast |-> "OperationDefinition", Type |-> Query, Name |-> None, Variables |-> <<>>,
     Directives |-> <<>>, SelectionSet |-> SelectionSet(<<>>), Metadata |-> <<>>]
ZeroFragmentDefinition ==
    [ast |-> "FragmentDefinition", Name |-> "", TypeName |-> "", Directives |-> <<>>,
     SelectionSet |-> SelectionSet(<<>>), Metadata |-> <<>>]
ZeroTypeDefinition ==
    [ast |-> "TypeDefinition", Name |-> "", Interfaces |-> <<>>, Fields |-> <<>>,
     Directives |-> <<>>, Metadata |-> <<>>]
ZeroFieldDefinition ==
    [Name |-> "", Arguments |-> <<>>, Type |-> None, Directives |-> <<>>, Metadata |-> <<>>]
ZeroInputValueDefinition ==
    [Name |-> "", Type |-> None, DefaultValue |-> None, Directives |-> <<>>,
     Metadata |-> <<>>]
ZeroInputTypeDefinition ==
    [ast |-> "InputTypeDefinition", Name |-> "", Fields |-> <<>>, Directives |-> <<>>,
     Metadata |-> <<>>]
ZeroEnumTypeDefinition ==
    [ast |-> "EnumTypeDefinition", Name |-> "", Values |-> <<>>, Directives |-> <<>>,
     Metadata |-> <<>>]
ZeroEnumValueDefinition == [Name |-> "", Directives |-> <<>>, Metadata |-> <<>>]
ZeroScalarTypeDefinition ==
    [ast |-> "ScalarTypeDefinition", Name |-> "", Directives |-> <<>>, Metadata |-> <<>>]
ZeroInterfaceTypeDefinition ==
    [ast |-> "InterfaceTypeDefinition", Name |-> "", Fields |-> <<>>, Directives |-> <<>>,
     Metadata |-> <<>>]
ZeroUnionTypeDefinition ==
    [ast |-> "UnionTypeDefinition", Name |-> "", Types |-> <<>>, Directives |-> <<>>,
     Metadata |-> <<>>]

RECURSIVE parseType(_)
RECURSIVE parseBody(_, _)

(* if p.currentToken.Type == BANG, at the end of parseType, for every BANG
   that follows *)
RECURSIVE nonNullEveryBang(_)
nonNullEveryBang(r) ==
    IF r.p.panic = <<>> /\ cur(r.p).Type = "BANG"
    THEN nonNullEveryBang(Parsed(parserNextToken(r.p), NonNullType(r.v)))
    ELSE r

nonNullIfBang(r) ==
    IF r.p.panic = <<>> /\ cur(r.p).Type = "BANG"
    THEN Parsed(parserNextToken(r.p), NonNullType(r.v))
    ELSE r

listOf(r) == Parsed(r.p, ListType(r.v))

parseType(q) ==
    nonNullIfBang(
        CASE cur(q).Type = "LBRACKET" ->
               listOf(expectToken(parseType(parserNextToken(q)), "RBRACKET"))
          [] cur(q).Type = "IDENT" ->
               Parsed(parserNextToken(q), NamedType(q.currentToken.Literal))
          [] OTHER -> Parsed(PanicAtCurrent(q, "expected type"), None))

(* case tokenizer.IDENT of parseValue, after its p.nextToken(): the message of
   the default case prints the literal read before and the position of the
   token that is current now *)
identValue(q, ident) ==
    CASE ident.Literal = "true" -> Parsed(q, BooleanValue(TRUE))
      [] ident.Literal = "false" -> Parsed(q, BooleanValue(FALSE))
      [] ident.Literal = "null" -> Parsed(q, NullValue)
      [] OTHER ->
           Parsed(Panic(q, "unexpected identifier in value", ident.Literal,
                        cur(q).Line, cur(q).Column, TRUE, ident), None)

(* case tokenizer.DOLLAR of parseValue, after its p.nextToken() *)
variableValue(q) ==
    IF cur(q).Type # "IDENT" THEN Parsed(PanicAtCurrent(q, "expected variable name"), None)
    ELSE Parsed(parserNextToken(q), Variable(q.currentToken.Literal))

parseValue(q) ==
    CASE cur(q).Type = "STRING" ->
           Parsed(parserNextToken(q), StringValue(q.currentToken.Literal))
      [] cur(q).Type = "INT" -> Parsed(parserNextToken(q), IntValue(q.currentToken.Literal))
      [] cur(q).Type = "FLOAT" ->
           Parsed(parserNextToken(q), FloatValue(q.currentToken.Literal))
      [] cur(q).Type = "IDENT" -> identValue(parserNextToken(q), q.currentToken)
      [] cur(q).Type = "DOLLAR" -> variableValue(parserNextToken(q))
      [] OTHER -> Parsed(PanicAtCurrent(q, "unexpected token in value"), None)

argumentValue(r) == setField(r, "Value", parseValue(r.p))

parseArgument(q) ==
    argumentValue(
        expectToken(takeName(Parsed(q, ZeroArgument), "Name", "expected argument name"),
                         "COLON"))

parseArguments(q) == parseBody(q, "arguments")

directiveArguments(r) ==
    IF cur(r.p).Type = "LPAREN" THEN setField(r, "Arguments", parseArguments(r.p)) ELSE r

parseDirective(q) ==
    directiveArguments(
        takeName(expectToken(Parsed(q, ZeroDirective), "AT"),
                 "Name", "expected directive name"))

(* for p.currentToken.Type == tokenizer.AT { directives = append(directives,
   parseDirective(p)) }, r.v the directives so far *)
RECURSIVE directivesLoop(_)
directivesLoop(r) ==
    IF cur(r.p).Type = "AT" THEN directivesLoop(appendTo(r, parseDirective(r.p))) ELSE r

parseDirectives(r) == setField(r, "Directives", directivesLoop(Parsed(r.p, <<>>)))

RECURSIVE parseSelectionSet(_)

optionalSelectionSet(r) ==
    IF cur(r.p).Type = "LBRACE"
    THEN setField(r, "SelectionSet", pointerTo(parseSelectionSet(r.p)))
    ELSE r

requiredSelectionSet(r) == setField(r, "SelectionSet", parseSelectionSet(r.p))

(* if p.currentToken.Type == tokenizer.COLON: the name read was the alias *)
fieldAlias(r) ==
    IF cur(r.p).Type = "COLON"
    THEN takeName(next(Parsed(r.p, [r.v EXCEPT !.Alias = Some(r.v.Name)])),
                  "Name", "expected field name after alias")
    ELSE r

parseField(q) ==
    optionalSelectionSet(parseDirectives(directiveArguments(fieldAlias(
        takeName(extractMetadata(Parsed(q, ZeroField)), "Name", "expected field name")))))

inlineTypeName(r) ==
    IF cur(r.p).Type = "IDENT"
    THEN Parsed(parserNextToken(r.p), [r.v EXCEPT !.TypeName = Some(r.p.currentToken.Literal)])
    ELSE r

(* parseFragmentSpread after expectToken(p, SPREAD); p.nextToken() *)
spreadOrInline(r) ==
    IF cur(r.p).Type = "ON"
    THEN requiredSelectionSet(parseDirectives(inlineTypeName(
             next(Parsed(r.p, [ZeroInlineFragment EXCEPT !.Metadata = r.v.Metadata])))))
    ELSE parseDirectives(takeIdent(r, "Name", "expected fragment name"))

parseFragmentSpread(q) ==
    spreadOrInline(expectToken(extractMetadata(Parsed(q, ZeroFragmentSpread)), "SPREAD"))

parseSelection(q) ==
    CASE cur(q).Type = "SPREAD" -> parseFragmentSpread(q)
      [] cur(q).Type = "IDENT" -> parseField(q)
      [] OTHER -> Parsed(PanicAtCurrent(q, "unexpected token in selection"), None)

typeOf(r) == setField(r, "Type", parseType(r.p))

defaultValue(r) ==
    IF cur(r.p).Type = "EQUALS"
    THEN setField(r, "DefaultValue", pointerTo(parseValue(parserNextToken(r.p))))
    ELSE r

parseVariableDefinition(q) ==
    defaultValue(typeOf(expectToken(
        takeIdent(expectToken(extractMetadata(Parsed(q, ZeroVariableDefinition)),
                                   "DOLLAR"),
                  "Name", "expected variable name"),
        "COLON")))

parseVariableDefinitions(q) == parseBody(q, "variable definitions")

parseInputValueDefinition(q) ==
    parseDirectives(defaultValue(typeOf(expectToken(
        takeName(extractMetadata(Parsed(q, ZeroInputValueDefinition)),
                 "Name", "expected input name"),
        "COLON"))))

parseInputValueDefinitions(q) == parseBody(q, "input value definitions")

fieldDefinitionArguments(r) ==
    IF cur(r.p).Type = "LPAREN"
    THEN setField(r, "Arguments", parseInputValueDefinitions(r.p))
    ELSE r

parseFieldDefinition(q) ==
    parseDirectives(typeOf(expectToken(
        fieldDefinitionArguments(
            takeName(extractMetadata(Parsed(q, ZeroFieldDefinition)),
                     "Name", "expected field name")),
        "COLON")))

parseFieldDefinitions(q) == parseBody(q, "field definitions")

parseEnumValueDefinition(q) ==
    parseDirectives(takeIdent(extractMetadata(Parsed(q, ZeroEnumValueDefinition)),
                              "Name", "expected enum value name"))

(* The seven loops over the members of a delimited body are the same code but
   for the delimiters, the function that parses a member, the text of the EOF
   panic and the `if p.currentToken.Type == tokenizer.COMMA { p.nextToken() }`
   after a member, which only three of them have.  A body is named by the
   text of its EOF panic. *)
opener(body) ==
    IF body \in {"arguments", "variable definitions", "input value definitions"}
    THEN "LPAREN" ELSE "LBRACE"
closer(body) ==
    IF body \in {"arguments", "variable definitions", "input value definitions"}
    THEN "RPAREN" ELSE "RBRACE"
skipsComma(body) == body \in {"arguments", "variable definitions", "input value definitions"}

parseMember(q, body) ==
    CASE body = "selection set" -> parseSelection(q)
      [] body = "arguments" -> parseArgument(q)
      [] body = "variable definitions" -> parseVariableDefinition(q)
      [] body = "field definitions" -> parseFieldDefinition(q)
      [] body = "input value definitions" -> parseInputValueDefinition(q)
      [] body = "input type definition" -> parseInputValueDefinition(q)
      [] body = "enum definition" -> parseEnumValueDefinition(q)

commaAfterMember(r, body) ==
    IF skipsComma(body) /\ cur(r.p).Type = "COMMA" THEN next(r) ELSE r

RECURSIVE bodyLoop(_, _)
(* one turn of the loop from the second test for the closing token on *)
bodyMember(r, body) ==
    IF cur(r.p).Type = closer(body) THEN r
    ELSE bodyLoop(commaAfterMember(appendTo(r, parseMember(r.p, body)), body), body)

bodyLoop(r, body) ==
    IF r.p.panic # <<>> \/ cur(r.p).Type = closer(body) THEN r
    ELSE IF cur(r.p).Type = "EOF"
         THEN Parsed(PanicEOF(r.p, "unexpected EOF in " \o body), r.v)
         ELSE bodyMember(Parsed(skipCommentsAndDocs(r.p), r.v), body)

parseBody(q, body) ==
    expectToken(bodyLoop(expectToken(Parsed(q, <<>>), opener(body)), body),
                     closer(body))

selectionSetOf(r) == Parsed(r.p, SelectionSet(r.v))

parseSelectionSet(q) == selectionSetOf(parseBody(q, "selection set"))

(* the switch on the operation keyword and the p.nextToken() after it *)
operationType(r) ==
    CASE cur(r.p).Type = "QUERY" -> next(Parsed(r.p, [r.v EXCEPT !.Type = Query]))
      [] cur(r.p).Type = "MUTATION" -> next(Parsed(r.p, [r.v EXCEPT !.Type = Mutation]))
      [] cur(r.p).Type = "SUBSCRIPTION" ->
           next(Parsed(r.p, [r.v EXCEPT !.Type = Subscription]))
      [] OTHER -> Parsed(PanicAtCurrent(r.p, "expected operation type"), r.v)

operationName(r) ==
    IF cur(r.p).Type = "IDENT"
    THEN Parsed(parserNextToken(r.p), [r.v EXCEPT !.Name = Some(r.p.currentToken.Literal)])
    ELSE r

operationVariables(r) ==
    IF cur(r.p).Type = "LPAREN"
    THEN setField(r, "Variables", parseVariableDefinitions(r.p))
    ELSE r

parseOperationDefinition(q) ==
    requiredSelectionSet(parseDirectives(operationVariables(operationName(operationType(
        extractMetadata(Parsed(q, ZeroOperationDefinition)))))))

parseAnonymousQuery(q) ==
    requiredSelectionSet(extractMetadata(Parsed(q, ZeroOperationDefinition)))

parseFragmentDefinition(q) ==
    requiredSelectionSet(parseDirectives(
        takeIdent(expectToken(
            takeIdent(expectToken(extractMetadata(Parsed(q, ZeroFragmentDefinition)),
                                       "FRAGMENT"),
                      "Name", "expected fragment name"),
            "ON"),
            "TypeName", "expected type name")))

(* the loops of parseImplementsInterfaces and parseUnionTypeDefinition: names
   with a separator between them, r.v the names so far *)
RECURSIVE nameList(_, _, _)
nameListRest(r, separator, message) ==
    IF cur(r.p).Type = separator THEN nameList(next(r), separator, message) ELSE r
nameList(r, separator, message) ==
    IF r.p.panic # <<>> THEN r
    ELSE IF cur(r.p).Type # "IDENT" THEN Parsed(PanicAtCurrent(r.p, message), r.v)
    ELSE nameListRest(Parsed(parserNextToken(r.p), Append(r.v, r.p.currentToken.Literal)),
                      separator, message)

parseImplementsInterfaces(q) ==
    nameList(expectToken(Parsed(q, <<>>), "IMPLEMENTS"), "AMP",
             "expected interface name")

typeInterfaces(r) ==
    IF cur(r.p).Type = "IMPLEMENTS"
    THEN setField(r, "Interfaces", parseImplementsInterfaces(r.p))
    ELSE r

(* if p.currentToken.Type == tokenizer.LBRACE { <field> = <the body> } *)
optionalBody(r, field, body) ==
    IF cur(r.p).Type = "LBRACE" THEN setField(r, field, parseBody(r.p, body)) ELSE r

(* metadata, keyword, name, as every type-system definition starts *)
definitionHead(q, zero, keyword, message) ==
    takeIdent(expectToken(extractMetadata(Parsed(q, zero)), keyword), "Name", message)

parseTypeDefinition(q) ==
    optionalBody(
        parseDirectives(typeInterfaces(
            definitionHead(q, ZeroTypeDefinition, "TYPE", "expected type name"))),
        "Fields", "field definitions")

parseInputTypeDefinition(q) ==
    optionalBody(
        parseDirectives(
            definitionHead(q, ZeroInputTypeDefinition, "INPUT", "expected input type name")),
        "Fields", "input type definition")

parseEnumTypeDefinition(q) ==
    optionalBody(
        parseDirectives(
            definitionHead(q, ZeroEnumTypeDefinition, "ENUM", "expected enum name")),
        "Values", "enum definition")

parseScalarTypeDefinition(q) ==
    parseDirectives(
        definitionHead(q, ZeroScalarTypeDefinition, "SCALAR", "expected scalar name"))

parseInterfaceTypeDefinition(q) ==
    optionalBody(
        parseDirectives(
            definitionHead(q, ZeroInterfaceTypeDefinition, "INTERFACE",
                           "expected interface name")),
        "Fields", "field definitions")

unionTypes(r) ==
    IF cur(r.p).Type = "EQUALS"
    THEN setField(r, "Types",
                  nameList(Parsed(parserNextToken(r.p), <<>>), "PIPE", "expected type name"))
    ELSE r

parseUnionTypeDefinition(q) ==
    unionTypes(parseDirectives(
        definitionHead(q, ZeroUnionTypeDefinition, "UNION", "expected union name")))

parseDefinition(q) ==
    CASE cur(q).Type \in {"QUERY", "MUTATION", "SUBSCRIPTION"} -> parseOperationDefinition(q)
      [] cur(q).Type = "FRAGMENT" -> parseFragmentDefinition(q)
      [] cur(q).Type = "TYPE" -> parseTypeDefinition(q)
      [] cur(q).Type = "INPUT" -> parseInputTypeDefinition(q)
      [] cur(q).Type = "ENUM" -> parseEnumTypeDefinition(q)
      [] cur(q).Type = "SCALAR" -> parseScalarTypeDefinition(q)
      [] cur(q).Type = "INTERFACE" -> parseInterfaceTypeDefinition(q)
      [] cur(q).Type = "UNION" -> parseUnionTypeDefinition(q)
      [] cur(q).Type = "LBRACE" -> parseAnonymousQuery(q)
      [] cur(q).Type = "EOF" -> Parsed(q, None)
      [] OTHER -> Parsed(PanicAtCurrent(q, "unexpected token"), None)

(* Parse run to its end: the nodes sent on the channel, how the goroutine
   ended, and the parser it ended with *)
RECURSIVE parseLoop(_, _)
sendAST(r, asts) ==
    IF r.p.panic # <<>> THEN [asts |-> asts, state |-> "panicked", p |-> r.p]
    ELSE parseLoop(r.p, Append(asts, r.v))
parseLoop(q, asts) ==
    CASE cur(q).Type = "EOF" -> [asts |-> asts, state |-> "closed", p |-> q]
      [] cur(q).Type = "COMMENT" -> parseLoop(handleComment(q), asts)
      [] cur(q).Type = "STRING" -> parseLoop(handleDocumentation(q), asts)
      [] OTHER -> sendAST(parseDefinition(q), asts)

Parse(text) == parseLoop(newParser(Tokenize(text)), <<>>)

(* Inputs of the parser. *)
Keywords == DOMAIN keywords

(* a name k at each position the grammar has a name in *)
NamePositions ==
    {"field", "alias", "aliased field", "argument", "argument definition", "directive",
     "variable definition", "variable"}
NameText(position, k) ==
    CASE position = "field" -> "query { " \o k \o " }"
      [] position = "alias" -> "query { " \o k \o ": a }"
      [] position = "aliased field" -> "query { a: " \o k \o " }"
      [] position = "argument" -> "query { a(" \o k \o ": 1) }"
      [] position = "argument definition" -> "type T { f(" \o k \o ": Int): Int }"
      [] position = "directive" -> "query { a @" \o k \o " }"
      [] position = "variable definition" -> "query Q($" \o k \o ": Int) { a }"
      [] position = "variable" -> "query { a(x: $" \o k \o ") }"
NameTexts == {NameText(position, k) : position \in NamePositions, k \in Keywords \cup {"b"}}

ValueTexts ==
    {"{ a(x: 1, y: \"s\", z: 1.5) b }", "{ a(x: true y: null, z: $v,) b }",
     "{ a(x: [1, 2]) b }", "{ a(x: [[1], []], y: 2) b }", "{ a(x: {k: 1, l: [2],}) b }",
     "{ a(x: []) }", "{ a(x: {}) }", "{ a(x: foo) }", "{ a(x: ) }", "{ a(x: $1) }",
     "type T { f(a: Int = 1, b: [Int] = [1]): Int }"}

MetadataTexts ==
    {"# c1\nquery { a }",
     "\"\"\"d1\"\"\"\n# c2\ntype Q {\n \"\"\"d2\"\"\"\n f(\n # c3\n x: Int\n \"\"\"d3\"\"\" y: Int): Int\n # c4\n g: Int }\n# c5\nenum E {\n # c6\n A\n \"\"\"d4\"\"\" B }",
     "query Q(\n# c1\n$v: Int) {\n # c2\n a {\n # c3\n b\n # c4\n ...F\n # c5\n ... on T { c } } }\n# c6\nfragment G on T { d }",
     "type A { f: Int\n # c1\n }\ntype B { g: Int }",
     "{ a(\n # c1\n x: 1) { b } }",
     "{ a(x: 1\n # c1\n ) c }",
     "{ a {\n # c1\n }\n b }",
     "enum E { A\n # c1\n }\n# c2\nscalar S",
     "\"s\" # c1\n \"\"\" \"\"\" scalar S @d(x: 1)",
     "input I {\n # c1\n a: Int = 1 @d\n \"\"\"d1\"\"\"\n b: [Int!] }\n# c2\ninterface N {\n # c3\n f: Int }\n# c4\nunion U @d = A | B",
     "type A implements N & M @d {\n # c1\n f: Int }\n# c2\nmutation M @d { a }\n# c3\nsubscription { a }"}

CommaTexts ==
    {"type T { a: Int, b: Int }", "type T { a: Int b: Int, }", "enum E { A, B }",
     "enum E { A B, }", "{ a(x: 1, y: 2) }", "{ a(x: 1 y: 2,) }",
     "type T { f(a: Int, b: Int): Int }", "type T { f(a: Int b: Int,): Int }",
     "input I { a: Int, b: Int }", "input I { a: Int b: Int, }",
     "interface N { a: Int, b: Int }", "query Q($a: Int, $b: Int,) { a }"}

ErrorTexts ==
    {"query { a", "type T { f: Int", "enum E { A", "input I { a: Int", "{ a(x: 1",
     "query Q($a: Int", "type T { f(a: Int", "query Q { a } }", "query Q a",
     "fragment on T { a }", "fragment F T { a }", "type { a: Int }", "type T { f Int }",
     "type T { f: }", "type T { f: [Int }", "type T implements { }", "union U = |",
     "enum E { 1 }", "{ ... 1 }", "{ a @ }", "{ a(1: 2) }", "{ a: }", "query Q($: Int) { a }",
     "scalar", "interface", "union", "input", "enum", "? { a }", "{ . }",
     "{ a(x: foo\n ) }", "{ a(x: foo) }", "{ \"s\" }", "{\n # c\n"}

(* the texts of GraphQL types of up to d brackets, each with the Type it denotes *)
MaxTypeDepth == 2
RECURSIVE TypeCases(_)
TypeCases(d) ==
    IF d = 0
    THEN {<<n, NamedType(n)>> : n \in {"User", "ID"}}
         \cup {<<n \o "!", NonNullType(NamedType(n))>> : n \in {"User"}}
    ELSE TypeCases(d - 1)
         \cup {<<"[" \o c[1] \o "]", ListType(c[2])>> : c \in TypeCases(d - 1)}
         \cup {<<"[" \o c[1] \o "]!", NonNullType(ListType(c[2]))>> : c \in TypeCases(d - 1)}
TypeText(text) == "type T { f: " \o text \o " g(a: " \o text \o "): Int }"
TypeTexts ==
    {TypeText(c[1]) : c \in TypeCases(MaxTypeDepth)}
    \cup {"type T { f: User!! }", "type T { f: [User!!] }", "type T { f: [User]!! g: Int }",
          "query Q($a: [User!]!, $b: User!!) { a }"}

ParseInputs ==
    NameTexts \cup ValueTexts \cup MetadataTexts \cup CommaTexts \cup ErrorTexts \cup TypeTexts

InitParse ==
    /\ psInput \in ParseInputs
    /\ p = newParser(Tokenize(psInput))
    /\ astCh = <<>>
    /\ psState = "running"
    /\ IdleTypeRef /\ IdleGen /\ IdleBuild /\ IdleTok /\ IdleFormat /\ IdlePipe

(* the turns of the loop of the goroutine of Parse *)
HandleComment ==
    /\ psState = "running" /\ cur(p).Type = "COMMENT"
    /\ p' = handleComment(p)
    /\ UNCHANGED <<psInput, astCh, psState, trVars, genVars, buildVars, tokVars, formatVars,
                   pipeVars>>

HandleDocumentation ==
    /\ psState = "running" /\ cur(p).Type = "STRING"
    /\ p' = handleDocumentation(p)
    /\ UNCHANGED <<psInput, astCh, psState, trVars, genVars, buildVars, tokVars, formatVars,
                   pipeVars>>

ParseDefinition ==
    /\ psState = "running" /\ cur(p).Type \notin {"EOF", "COMMENT", "STRING"}
    /\ \E r \in {parseDefinition(p)} :
          /\ p' = r.p
          /\ astCh' = IF r.p.panic # <<>> THEN astCh ELSE Append(astCh, r.v)
          /\ psState' = IF r.p.panic # <<>> THEN "panicked" ELSE "running"
    /\ UNCHANGED <<psInput, trVars, genVars, buildVars, tokVars, formatVars, pipeVars>>

(* the loop ends at EOF and the deferred close(ch) runs *)
CloseASTs ==
    /\ psState = "running" /\ cur(p).Type = "EOF"
    /\ psState' = "closed"
    /\ UNCHANGED <<psInput, p, astCh, trVars, genVars, buildVars, tokVars, formatVars, pipeVars>>

NextParse == HandleComment \/ HandleDocumentation \/ ParseDefinition \/ CloseASTs

SpecParse == InitParse /\ [][NextParse]_vars

(* ---------------------------------------------------------------------- *)
(* Claims about names (SpecParse).                                        *)

(* the name the parsed node has at a position of NameText *)
FirstSelection(asts) == asts[1].SelectionSet.Selections[1]
NameAt(position, asts) ==
    CASE position = "field" -> Some(FirstSelection(asts).Name)
      [] position = "alias" -> FirstSelection(asts).Alias
      [] position = "aliased field" -> Some(FirstSelection(asts).Name)
      [] position = "argument" -> Some(FirstSelection(asts).Arguments[1].Name)
      [] position = "argument definition" -> Some(asts[1].Fields[1].Arguments[1].Name)
      [] position = "directive" -> Some(FirstSelection(asts).Directives[1].Name)
      [] position = "variable definition" -> Some(asts[1].Variables[1].Name)
      [] position = "variable" ->
            IF FirstSelection(asts).Arguments[1].Value.val = "Variable"
            THEN Some(FirstSelection(asts).Arguments[1].Value.Name)
            ELSE None

(* once Parse has ended on the text with k at the position, it has sent one
   node and the node has the name k there *)
ParsedAsName(position, k) ==
    (psInput = NameText(position, k) /\ psState # "running")
        => /\ psState = "closed"
           /\ Len(astCh) = 1
           /\ NameAt(position, astCh) = Some(k)

(* C11: for every reserved keyword k, a field selection whose name or alias
   is k, an argument or argument definition named k and a directive named k
   parse into a node whose name is the literal k, as an identifier there
   does. *)
C11_KeywordsAreNames ==
    \A position \in {"field", "alias", "aliased field", "argument",
                     "argument definition", "directive"} :
        \A k \in Keywords \cup {"b"} : ParsedAsName(position, k)

(* C12: for every reserved keyword k, a variable named k is accepted in the
   variable definitions of an operation and as a $k reference in an argument
   value, giving VariableDefinition{Name: k} and Variable{Name: k}. *)
C12_KeywordsAreVariableNames ==
    \A position \in {"variable definition", "variable"} :
        \A k \in Keywords \cup {"b"} : ParsedAsName(position, k)

(* ---------------------------------------------------------------------- *)
(* Claims about values (SpecParse).                                       *)

(* type ListValue, type ObjectValue, type ObjectField *)
ListValue(values) == [val |-> "ListValue", Values |-> values]
ObjectValue(fields) == [val |-> "ObjectValue", Fields |-> fields]
ObjectField(name, value) == [Name |-> name, Value |-> value]

(* texts of ValueTexts with a list or an object as the value of the first
   argument of the first field, the value each denotes, and how many
   selections the text has *)
ListAndObjectCases ==
    {[text |-> "{ a(x: [1, 2]) b }", selections |-> 2,
      value |-> ListValue(<<IntValue("1"), IntValue("2")>>)],
     [text |-> "{ a(x: [[1], []], y: 2) b }", selections |-> 2,
      value |-> ListValue(<<ListValue(<<IntValue("1")>>), ListValue(<<>>)>>)],
     [text |-> "{ a(x: {k: 1, l: [2],}) b }", selections |-> 2,
      value |-> ObjectValue(<<ObjectField("k", IntValue("1")),
                              ObjectField("l", ListValue(<<IntValue("2")>>))>>)],
     [text |-> "{ a(x: []) }", selections |-> 1, value |-> ListValue(<<>>)],
     [text |-> "{ a(x: {}) }", selections |-> 1, value |-> ObjectValue(<<>>)]}

(* C13: at a value position `[` ... `]` parses to a ListValue and
   `{` name: value ... `}` to an ObjectValue, recursively, in order, with
   commas between and after members, ending at the matching closing token,
   after which the parser continues with the next token. *)
C13_ListAndObjectValuesParse ==
    \A c \in ListAndObjectCases :
        (psInput = c.text /\ psState # "running")
            => /\ psState = "closed"
               /\ Len(astCh) = 1
               /\ Len(astCh[1].SelectionSet.Selections) = c.selections
               /\ FirstSelection(astCh).Arguments[1].Value = c.value

(* ---------------------------------------------------------------------- *)
(* Claims about metadata (SpecParse).                                     *)

(* the nodes of an AST that are built by a parse function of their own, the
   node itself first: variable definitions, field definitions, argument
   definitions, enum values, arguments and selections *)
SelectionsOf(node) ==
    IF "SelectionSet" \notin DOMAIN node THEN <<>>
    ELSE IF "sel" \in DOMAIN node /\ node.sel = "Field"
         THEN IF node.SelectionSet = None THEN <<>> ELSE node.SelectionSet[1].Selections
         ELSE node.SelectionSet.Selections
ChildrenOf(node) ==
    (IF "Variables" \in DOMAIN node THEN node.Variables ELSE <<>>)
    \o (IF "Fields" \in DOMAIN node THEN node.Fields ELSE <<>>)
    \o (IF "Arguments" \in DOMAIN node THEN node.Arguments ELSE <<>>)
    \o (IF "Values" \in DOMAIN node THEN node.Values ELSE <<>>)
    \o SelectionsOf(node)
RECURSIVE NodesOf(_)
RECURSIVE NodesOfAll(_)
NodesOf(node) == <<node>> \o NodesOfAll(ChildrenOf(node))
NodesOfAll(nodes) ==
    IF nodes = <<>> THEN <<>> ELSE NodesOf(Head(nodes)) \o NodesOfAll(Tail(nodes))

MetadataOf(node) == IF "Metadata" \in DOMAIN node THEN node.Metadata ELSE <<>>

(* the nodes sent so far that have metadata *)
NodesWithMetadata == SelectSeq(NodesOfAll(astCh), LAMBDA node : MetadataOf(node) # <<>>)

(* what a comment or doc-string token contributes to the pending metadata *)
MetadataContent(token) ==
    CASE token.Type = "COMMENT" -> Some(TrimSpace(SubSeq(token.Literal, 2, Len(token.Literal))))
      [] /\ token.Type = "STRING"
         /\ Len(token.Literal) >= 6
         /\ HasPrefix(token.Literal, "\"\"\"")
         /\ HasSuffix(token.Literal, "\"\"\"")
         /\ docContent(token.Literal) # "" -> Some(docContent(token.Literal))
      [] OTHER -> None
MetadataTokens(tokens) == {i \in 1..Len(tokens) : MetadataContent(tokens[i]) # None}
(* the texts in which the content tells which token an entry came from *)
DistinctContents(tokens) ==
    \A i, j \in MetadataTokens(tokens) :
        MetadataContent(tokens[i]) = MetadataContent(tokens[j]) => i = j
TokenOf(tokens, entry) ==
    CHOOSE i \in MetadataTokens(tokens) : MetadataContent(tokens[i]) = Some(entry)

NoEntryShared(nodes) ==
    \A i, j \in 1..Len(nodes) :
        \A a \in 1..Len(MetadataOf(nodes[i])), b \in 1..Len(MetadataOf(nodes[j])) :
            MetadataOf(nodes[i])[a] = MetadataOf(nodes[j])[b] => (i = j /\ a = b)
EntriesFromTokens(tokens, nodes) ==
    \A i \in 1..Len(nodes) : \A a \in 1..Len(MetadataOf(nodes[i])) :
        \E t \in MetadataTokens(tokens) : MetadataContent(tokens[t]) = Some(MetadataOf(nodes[i])[a])
InSourceOrder(tokens, nodes) ==
    \A i \in 1..Len(nodes) : \A a, b \in 1..Len(MetadataOf(nodes[i])) :
        a < b => TokenOf(tokens, MetadataOf(nodes[i])[a]) < TokenOf(tokens, MetadataOf(nodes[i])[b])
(* a node that takes its metadata now gets the pending entries and leaves none *)
TakingEmptiesPending(q) ==
    /\ extractMetadata(Parsed(q, ZeroField)).v.Metadata = q.pendingComment
    /\ extractMetadata(Parsed(q, ZeroField)).p.pendingComment = <<>>
MetadataOfOneNode(tokens, nodes) ==
    DistinctContents(tokens)
        => NoEntryShared(nodes) /\ EntriesFromTokens(tokens, nodes) /\ InSourceOrder(tokens, nodes)

(* C14: across a parse each comment or doc-string contributes to the
   metadata of at most one node, a node's metadata is in source order, and
   right after a node takes its metadata the pending buffer is empty, so no
   two nodes share an entry. *)
C14_MetadataNeverShared ==
    /\ MetadataOfOneNode(Tokenize(psInput), NodesWithMetadata)
    /\ (psState = "running" => TakingEmptiesPending(p))

(* a parse that has ended with metadata on several nodes, one of them with
   several entries, and a parser that has entries pending *)
C14_Witness ==
    /\ psState = "closed"
    /\ Len(NodesWithMetadata) >= 3
    /\ \E i \in 1..Len(NodesWithMetadata) : Len(MetadataOf(NodesWithMetadata[i])) >= 2
    /\ DistinctContents(Tokenize(psInput))

(* the first token after token i that Parse and skipCommentsAndDocs do not
   pass over: the first token of what follows the comment *)
IsSkipped(token) ==
    \/ token.Type = "COMMENT"
    \/ token.Type = "STRING" /\ HasPrefix(token.Literal, "\"\"\"")
RECURSIVE FollowingToken(_, _)
FollowingToken(tokens, i) ==
    IF i + 1 > Len(tokens) THEN i
    ELSE IF IsSkipped(tokens[i + 1]) THEN FollowingToken(tokens, i + 1)
    ELSE i + 1

(* the literal that names what starts at token j: the name after `$`, `...`
   or a definition keyword, else the token itself *)
StartMarkers ==
    {"DOLLAR", "SPREAD", "QUERY", "MUTATION", "SUBSCRIPTION", "FRAGMENT", "TYPE", "INPUT",
     "ENUM", "SCALAR", "INTERFACE", "UNION"}
StartLiteral(tokens, j) ==
    IF tokens[j].Type \in StartMarkers /\ j < Len(tokens)
    THEN tokens[j + 1].Literal
    ELSE tokens[j].Literal
(* the same literal, read from the node *)
NodeStart(node) ==
    CASE "sel" \in DOMAIN node /\ node.sel = "Field" ->
            IF node.Alias # None THEN node.Alias[1] ELSE node.Name
      [] "sel" \in DOMAIN node /\ node.sel = "InlineFragment" ->
            IF node.TypeName # None THEN "on" ELSE "{"
      [] "ast" \in DOMAIN node /\ node.ast = "OperationDefinition" ->
            IF node.Name # None THEN node.Name[1] ELSE "{"
      [] OTHER -> node.Name

AttachedToFollowingNode(tokens, nodes) ==
    \A i \in 1..Len(nodes) : \A a \in 1..Len(MetadataOf(nodes[i])) :
        StartLiteral(tokens, FollowingToken(tokens, TokenOf(tokens, MetadataOf(nodes[i])[a])))
            = NodeStart(nodes[i])

(* C15: a comment or doc-string is attached only to the node that
   immediately follows it; one written inside a body is attached to the
   member that follows it in that body, never to the enclosing definition,
   to a node nested deeper than that member, or to a definition that starts
   after the body has been closed. *)
C15_MetadataOnFollowingNode ==
    DistinctContents(Tokenize(psInput))
        => AttachedToFollowingNode(Tokenize(psInput), NodesWithMetadata)

(* ---------------------------------------------------------------------- *)
(* Claims about types (SpecParse).                                        *)

RECURSIVE NoNonNullOfNonNull(_)
NoNonNullOfNonNull(type) ==
    CASE type.t = "NamedType" -> TRUE
      [] type.t = "ListType" -> NoNonNullOfNonNull(type.Type)
      [] type.t = "NonNullType" ->
            type.Type.t # "NonNullType" /\ NoNonNullOfNonNull(type.Type)

(* the nodes sent so far for which parseType returned a Type: the ones built
   by a parse function that calls parseType are the ones without a tag that
   have a Type *)
HasParsedType(node) == "Type" \in DOMAIN node /\ "ast" \notin DOMAIN node
NodesWithType == SelectSeq(NodesOfAll(astCh), HasParsedType)

(* the text of a field type and of an argument type parse to the Type the
   text denotes *)
TypeParsedAs(c) ==
    (psInput = TypeText(c[1]) /\ psState # "running")
        => /\ psState = "closed"
           /\ Len(astCh) = 1
           /\ astCh[1].Fields[1].Type = c[2]
           /\ astCh[1].Fields[2].Arguments[1].Type = c[2]

(* C16: parseType maps `[` T `]` to List(T'), a name to Named and a single
   trailing `!` to NonNull of exactly the list or named type just parsed;
   no Type it returns has a NonNull directly around a NonNull.  `[User!]!`
   gives NonNull(List(NonNull(Named User))). *)
C16_TypesAsWritten ==
    /\ \A c \in TypeCases(MaxTypeDepth) : TypeParsedAs(c)
    /\ \A i \in 1..Len(NodesWithType) : NoNonNullOfNonNull(NodesWithType[i].Type)

(* `[User!]!` has been parsed as the type of a field and of an argument *)
C16_Witness ==
    /\ psInput = TypeText("[User!]!")
    /\ psState = "closed"
    /\ astCh[1].Fields[1].Type = NonNullType(ListType(NonNullType(NamedType("User"))))
    /\ astCh[1].Fields[2].Arguments[1].Type = astCh[1].Fields[1].Type

(* ---------------------------------------------------------------------- *)
(* Claims about commas (SpecParse).                                       *)

(* the text with its commas taken out *)
RECURSIVE WithoutCommas(_)
WithoutCommas(text) ==
    IF text = "" THEN ""
    ELSE (IF RuneAt(text, 0) = "," THEN "" ELSE RuneAt(text, 0))
         \o WithoutCommas(Slice(text, 1, Len(text)))

(* texts of CommaTexts with the comma in a field-definition list, an
   argument list, an input-value list or an enum-value list *)
CommaListTexts ==
    {"type T { a: Int, b: Int }", "type T { a: Int b: Int, }", "interface N { a: Int, b: Int }",
     "enum E { A, B }", "enum E { A B, }", "{ a(x: 1, y: 2) }", "{ a(x: 1 y: 2,) }",
     "type T { f(a: Int, b: Int): Int }", "type T { f(a: Int b: Int,): Int }"}

SameWithoutCommas(text) ==
    (psInput = text /\ psState # "running")
        => /\ psState = "closed"
           /\ Parse(WithoutCommas(text)).state = "closed"
           /\ astCh = Parse(WithoutCommas(text)).asts

(* C17: in field-definition lists, argument lists, input-value lists and
   enum-value lists a comma between two members or after the last one is
   accepted, and the AST is that of the same list written without commas. *)
C17_CommasAccepted == \A text \in CommaListTexts : SameWithoutCommas(text)

(* ---------------------------------------------------------------------- *)
(* Claims about failures (SpecParse).                                     *)

(* the panic message names the kind, the line and the column of the token
   that made the parser fail *)
ReportsCause(failure) ==
    /\ failure.positioned
    /\ failure.kind = failure.cause.Type
    /\ failure.line = failure.cause.Line
    /\ failure.column = failure.cause.Column

(* C18: every parse failure (a wrong token where a specific one is required,
   end of input inside a delimited body, an unexpected token starting a
   definition, selection or value) is reported with the kind, line and
   column of the token that caused it, never with the position of a
   neighbouring token and never without a position. *)
C18_FailuresReportCause == psState = "panicked" => ReportsCause(p.panic[1])

(* ---------------------------------------------------------------------- *)
(* The pretty-printer of operations of src/parser/parser.go, applied to   *)
(* the nodes the parser sends.                                            *)

RECURSIVE StringOf(_)
StringOf(chars) == IF chars = <<>> THEN "" ELSE Head(chars) \o StringOf(Tail(chars))

(* strings.Repeat *)
RECURSIVE Repeat(_, _)
Repeat(s, count) == IF count <= 0 THEN "" ELSE s \o Repeat(s, count - 1)

(* NamedType.String, ListType.String, NonNullType.String *)
RECURSIVE TypeString(_)
TypeString(type) ==
    CASE type.t = "NamedType" -> type.Name
      [] type.t = "ListType" -> "[" \o TypeString(type.Type) \o "]"
      [] type.t = "NonNullType" -> TypeString(type.Type) \o "!"

(* the switch on arg.Value of Field.FormattedString *)
argumentValueString(arg) ==
    IF arg.Value.val = "Variable" THEN "$" \o arg.Value.Name ELSE "$" \o arg.Name

RECURSIVE argumentsString(_, _)
argumentsString(arguments, i) ==
    IF i > Len(arguments) THEN ""
    ELSE (IF i > 1 THEN ", " ELSE "")
         \o arguments[i].Name \o ": " \o argumentValueString(arguments[i])
         \o argumentsString(arguments, i + 1)

RECURSIVE SelectionSetFormattedString(_, _)
FieldFormattedString(f, indent) ==
    (IF f.Alias # None THEN f.Alias[1] \o ": " ELSE "")
    \o f.Name
    \o (IF Len(f.Arguments) > 0 THEN "(" \o argumentsString(f.Arguments, 1) \o ")" ELSE "")
    \o (IF f.SelectionSet # None
        THEN " " \o SelectionSetFormattedString(f.SelectionSet[1], indent + 1)
        ELSE "")

selectionFormattedString(s, indent) ==
    CASE s.sel = "Field" ->
            Repeat("  ", indent) \o FieldFormattedString(s, indent) \o "\n"
      [] s.sel = "FragmentSpread" -> Repeat("  ", indent) \o "..." \o s.Name \o "\n"
      [] s.sel = "InlineFragment" ->
            Repeat("  ", indent) \o "...on "
            \o (IF s.TypeName # None THEN s.TypeName[1] ELSE "")
            \o " " \o SelectionSetFormattedString(s.SelectionSet, indent + 1) \o "\n"

RECURSIVE selectionsFormattedString(_, _, _)
selectionsFormattedString(selections, i, indent) ==
    IF i > Len(selections) THEN ""
    ELSE selectionFormattedString(selections[i], indent)
         \o selectionsFormattedString(selections, i + 1, indent)

SelectionSetFormattedString(ss, indent) ==
    "{\n" \o selectionsFormattedString(ss.Selections, 1, indent)
    \o Repeat("  ", indent - 1) \o "}"

RECURSIVE variablesString(_, _)
variablesString(variables, i) ==
    IF i > Len(variables) THEN ""
    ELSE (IF i > 1 THEN ", " ELSE "")
         \o "$" \o variables[i].Name \o ": " \o TypeString(variables[i].Type)
         \o variablesString(variables, i + 1)

generateFormattedGraphQLString(od) ==
    StringOf(ToLower(OperationTypeString(od.Type)))
    \o (IF od.Name # None THEN " " \o od.Name[1] ELSE "")
    \o (IF Len(od.Variables) > 0 THEN "(" \o variablesString(od.Variables, 1) \o ")" ELSE "")
    \o " " \o SelectionSetFormattedString(od.SelectionSet, 1)

(* Operations given to the parser, each an operation head with one selection
   set around a selection. *)
FormatHeads ==
    {"", "query", "query Q", "mutation M", "subscription S($v: [ID!]!, $w: Int)"}
FormatSelections ==
    {"a", "b: a", "a b", "a(x: $v)", "a(x: $v, y: $w)", "a(x: 1)", "a(id: \"s\") { b }",
     "a(x: true)", "a(x: null)", "a(x: 1.5, y: $w)", "a { b { c } d }", "...F", "... on T { a }",
     "a { ...F ... on T { b: c } }", "a: type(input: $v)"}
FormatInputs == {head \o " { " \o selection \o " }" : head \in FormatHeads,
                                                    selection \in FormatSelections}

InitFormat ==
    /\ fmInput \in FormatInputs
    /\ fmOp = None
    /\ fmText = None
    /\ fmReparsed = None
    /\ IdleTypeRef /\ IdleGen /\ IdleBuild /\ IdleTok /\ IdleParse /\ IdlePipe

(* the parser sends the operation of the text *)
ParseOperation ==
    /\ fmOp = None
    /\ \E r \in {Parse(fmInput)} :
          /\ r.state = "closed" /\ Len(r.asts) = 1
          /\ r.asts[1].ast = "OperationDefinition"
          /\ fmOp' = Some(r.asts[1])
    /\ UNCHANGED <<fmInput, fmText, fmReparsed, trVars, genVars, buildVars, tokVars, parseVars,
                   pipeVars>>

(* the generator formats the operation for the generated code *)
FormatOperation ==
    /\ fmOp # None /\ fmText = None
    /\ fmText' = Some(generateFormattedGraphQLString(fmOp[1]))
    /\ UNCHANGED <<fmInput, fmOp, fmReparsed, trVars, genVars, buildVars, tokVars, parseVars,
                   pipeVars>>

(* the formatted text is parsed *)
ParseFormatted ==
    /\ fmText # None /\ fmReparsed = None
    /\ \E r \in {Parse(fmText[1])} :
          fmReparsed' = Some([state |-> r.state, asts |-> r.asts])
    /\ UNCHANGED <<fmInput, fmOp, fmText, trVars, genVars, buildVars, tokVars, parseVars, pipeVars>>

NextFormat == ParseOperation \/ FormatOperation \/ ParseFormatted

SpecFormat == InitFormat /\ [][NextFormat]_vars

(* two values are the same kind of value with the same content *)
SameValue(v, w) == v.val = w.val /\ v = w
SameArguments(as, bs) ==
    /\ Len(as) = Len(bs)
    /\ \A i \in 1..Len(as) : as[i].Name = bs[i].Name /\ SameValue(as[i].Value, bs[i].Value)
SameVariables(vs, ws) ==
    /\ Len(vs) = Len(ws)
    /\ \A i \in 1..Len(vs) : vs[i].Name = ws[i].Name /\ vs[i].Type = ws[i].Type

(* two selections are equal apart from metadata and directives *)
RECURSIVE SameSelections(_, _)
SameSelection(s, t) ==
    /\ s.sel = t.sel
    /\ CASE s.sel = "Field" ->
              /\ s.Alias = t.Alias
              /\ s.Name = t.Name
              /\ SameArguments(s.Arguments, t.Arguments)
              /\ (s.SelectionSet = None) = (t.SelectionSet = None)
              /\ s.SelectionSet # None
                    => SameSelections(s.SelectionSet[1].Selections,
                                      t.SelectionSet[1].Selections)
         [] s.sel = "FragmentSpread" -> s.Name = t.Name
         [] s.sel = "InlineFragment" ->
              /\ s.TypeName = t.TypeName
              /\ SameSelections(s.SelectionSet.Selections, t.SelectionSet.Selections)
SameSelections(ss, ts) ==
    /\ Len(ss) = Len(ts)
    /\ \A i \in 1..Len(ss) : SameSelection(ss[i], ts[i])

SameOperation(od, other) ==
    /\ other.ast = "OperationDefinition"
    /\ od.Type = other.Type
    /\ od.Name = other.Name
    /\ SameVariables(od.Variables, other.Variables)
    /\ SameSelections(od.SelectionSet.Selections, other.SelectionSet.Selections)

(* C19: for every operation the parser can produce, parsing the operation's
   pretty-printed text yields an operation equal to it apart from metadata:
   same kind, name and variables, and the same selections with the same
   aliases, names, arguments, argument values and nesting. *)
C19_FormattedOperationParsesBack ==
    fmReparsed # None
        => /\ fmReparsed[1].state = "closed"
           /\ Len(fmReparsed[1].asts) = 1
           /\ SameOperation(fmOp[1], fmReparsed[1].asts[1])

(* ---------------------------------------------------------------------- *)
(* Claims about positions and strings (SpecTok).                          *)

(* the 1-indexed line and column in the input of the rune at offset q (of
   the end of the input for q = Len(input)) *)
LineOf(input, q) == 1 + Cardinality({r \in 0..(q - 1) : RuneAt(input, r) = "\n"})
LineStart(input, q) ==
    IF \E r \in 0..(q - 1) : RuneAt(input, r) = "\n"
    THEN 1 + CHOOSE r \in 0..(q - 1) :
                 /\ RuneAt(input, r) = "\n"
                 /\ \A s \in (r + 1)..(q - 1) : RuneAt(input, s) # "\n"
    ELSE 0
ColumnOf(input, q) == q - LineStart(input, q) + 1

(* the token sent in this step *)
SentToken == tkCh'[Len(tkCh')]

TokenAtSourcePosition ==
    \A q \in {TokenStart(tkInput, tkPos)} :
        tkCh' # tkCh =>
            /\ SentToken.Line = LineOf(tkInput, q)
            /\ SentToken.Column = ColumnOf(tkInput, q)

(* C21: for every input and every token sent, Line and Column are the
   1-indexed line and column of the token's first character in the source
   (a newline starts a new line at column 1), and for EOF the position just
   past the last character, also for tokens after a string or doc-string
   that holds newlines or backslash escapes. *)
C21_TokensAtSourcePosition == [][TokenAtSourcePosition]_vars

(* the token sent in this step starts at a quote and is ILLEGAL: the string
   or doc-string opened there has no closing delimiter *)
UnterminatedAt(q) ==
    /\ tkCh' # tkCh
    /\ q < Len(tkInput) /\ RuneAt(tkInput, q) = "\""
    /\ SentToken.Type = "ILLEGAL"

UnterminatedTakesRest ==
    \A q \in {TokenStart(tkInput, tkPos)} :
        UnterminatedAt(q) =>
            /\ SentToken.Literal = Slice(tkInput, q, Len(tkInput))
            /\ SentToken.Line = LineOf(tkInput, q)
            /\ SentToken.Column = ColumnOf(tkInput, q)
            /\ tkPos' = Len(tkInput)

OnlyEOFAfterUnterminated ==
    \A i \in 1..(Len(tkCh) - 1) :
        (tkCh[i].Type = "ILLEGAL" /\ HasPrefix(tkCh[i].Literal, "\""))
            => tkCh[i + 1].Type = "EOF"

(* C22: when a `"` or a `"""` has no closing delimiter, one ILLEGAL token is
   sent, positioned at the opening delimiter, whose literal is the whole text
   from that delimiter to the end of the input, and the only token after it
   is EOF: no part of that span is tokenized a second time. *)
C22_UnterminatedStringTakesRest ==
    /\ [][UnterminatedTakesRest]_vars
    /\ []OnlyEOFAfterUnterminated

(* the offsets behind the opening `"""` at q where a `"""` stands that no
   backslash escapes *)
UnescapedTripleQuotes(input, q) ==
    {e \in (q + 3)..(Len(input) - 3) :
        IsTripleQuote(input, e) /\ RuneAt(input, e - 1) # "\\"}
FirstUnescaped(input, q) ==
    CHOOSE e \in UnescapedTripleQuotes(input, q) :
        \A other \in UnescapedTripleQuotes(input, q) : e <= other

(* the offset of the first `"` from pos on that is not the second rune of a
   two-character escape, or the end of the input *)
RECURSIVE ClosingQuote(_, _)
ClosingQuote(input, pos) ==
    CASE pos >= Len(input) -> Len(input)
      [] RuneAt(input, pos) = "\"" -> pos
      [] RuneAt(input, pos) = "\\" /\ pos + 1 < Len(input) -> ClosingQuote(input, pos + 2)
      [] OTHER -> ClosingQuote(input, pos + 1)

StartsBlock(input, q) == q + 2 < Len(input) /\ IsTripleQuote(input, q)

BlockStringAsWritten ==
    \A q \in {TokenStart(tkInput, tkPos)} :
        (/\ tkCh' # tkCh
         /\ StartsBlock(tkInput, q)
         /\ UnescapedTripleQuotes(tkInput, q) # {})
            => /\ SentToken.Type = "STRING"
               /\ SentToken.Literal =
                     Slice(tkInput, q, FirstUnescaped(tkInput, q) + 3)
               /\ tkPos' = FirstUnescaped(tkInput, q) + 3

QuotedStringAsWritten ==
    \A q \in {TokenStart(tkInput, tkPos)} :
        (/\ tkCh' # tkCh
         /\ q < Len(tkInput) /\ RuneAt(tkInput, q) = "\""
         /\ ~StartsBlock(tkInput, q)
         /\ ClosingQuote(tkInput, q + 1) < Len(tkInput))
            => /\ SentToken.Type = "STRING"
               /\ SentToken.Literal = Slice(tkInput, q, ClosingQuote(tkInput, q + 1) + 1)
               /\ tkPos' = ClosingQuote(tkInput, q + 1) + 1

(* C23: a `"""` block is sent as one STRING token whose literal runs from the
   opening `"""` through the first following `"""` that is not escaped (a
   `\"""` inside the block does not end it), newlines kept verbatim; a
   single-quoted string ends only at the first `"` that is not part of a
   two-character `\X` escape. *)
C23_StringsEndAtUnescapedQuote ==
    /\ [][BlockStringAsWritten]_vars
    /\ [][QuotedStringAsWritten]_vars

(* ---------------------------------------------------------------------- *)
(* The pipeline: the goroutine of tokenizer.Tokenize, the goroutine of    *)
(* parser.Parse and the consumer that ranges over the channel of Parse.   *)
(* Both channels are made without a capacity, so a send and its receive   *)
(* are one step.  The parser of the pipeline is the parser above: p is    *)
(* the *parser at the start of the current turn of the loop of Parse, and *)
(* p.tokens stands for what the token channel delivers from there on; the *)
(* tokens that the calls of nextToken in a turn have to receive are those *)
(* that the parse function of the turn takes from p.tokens.  psPlan holds *)
(* the turns that are still to end, first the one the parser is in.       *)

(* the texts of top-level definitions an input is made of, some with a
   comment in front, the last one a syntax error *)
MaxDefs == 3
PipePieces ==
    {"scalar A ", "# c\n{ a } ", "type T { f: Int } ", "} "}
RECURSIVE PipeCasesOfLength(_)
PipeCasesOfLength(n) ==
    IF n = 0 THEN {<<>>}
    ELSE {Append(c, piece) : c \in PipeCasesOfLength(n - 1), piece \in PipePieces}
PipeCases == UNION {PipeCasesOfLength(n) : n \in 0..MaxDefs}
RECURSIVE ConcatAll(_)
ConcatAll(pieces) == IF pieces = <<>> THEN "" ELSE Head(pieces) \o ConcatAll(Tail(pieces))

(* ch := make(chan Token) and ch := make(chan AST): a send completes when
   the receiver is waiting in its receive *)
tokenHandOffAhead(receiverWaits) == TRUE
tokenHandOff(receiverWaits) == receiverWaits
nodeHandOffAhead(receiverWaits) == TRUE
nodeHandOff(receiverWaits) == receiverWaits

(* how many tokens the channel has delivered when the parser is q *)
Taken(input, q) == Len(Tokenize(input)) - Len(q.tokens)
(* q has called nextToken after the last token: `token, ok := <-p.tokens`
   with ok false, which returns once the channel is closed *)
ReadClosed(q) == ClosedToken \in {q.peekToken, q.currentToken}

(* the turn of the goroutine of Parse that starts with the parser q: the
   parser at its end and the node it sends *)
HasTurn(q) == IF q = None THEN TRUE ELSE cur(q).Type # "EOF"
turnOf(input, q) ==
    CASE q = None -> Parsed(newParser(Tokenize(input)), None)
      [] q # None /\ cur(q).Type = "COMMENT" -> Parsed(handleComment(q), None)
      [] q # None /\ cur(q).Type = "STRING" -> Parsed(handleDocumentation(q), None)
      [] OTHER -> parseDefinition(q)
(* a turn with what its calls of nextToken receive: `taken` tokens up to
   its end, and after the last token the closing of the channel *)
Turn(input, r) ==
    [p |-> r.p, v |-> r.v, taken |-> Taken(input, r.p), readClosed |-> ReadClosed(r.p)]
(* the parser is sequential and the tokens are a function of the input, so
   the turns the goroutine goes through are known from the input: newParser,
   then one turn for every iteration of the loop, up to EOF or a panic *)
RECURSIVE turnsFrom(_, _)
nextTurns(input, r) ==
    IF r.p.panic # <<>> THEN <<Turn(input, r)>>
    ELSE <<Turn(input, r)>> \o turnsFrom(input, r.p)
turnsFrom(input, q) == IF HasTurn(q) THEN nextTurns(input, turnOf(input, q)) ELSE <<>>

(* the parser is in a call of nextToken that waits for a token *)
ParserWaits ==
    /\ psState = "running" /\ psPlan # <<>>
    /\ psTaken < Head(psPlan).taken

Crashed == psState = "panicked"

InitPipe ==
    /\ tkInput \in {ConcatAll(c) : c \in PipeCases}
    /\ tkPos = 0 /\ tkLine = 1 /\ tkCol = 1
    /\ tkCh = <<>> /\ tkClosed = FALSE
    /\ lexPc = "scan" /\ lexToken = None
    /\ psInput = "" /\ p = None /\ astCh = <<>> /\ psState = "running"
    /\ psPlan = turnsFrom(tkInput, None)
    /\ psTaken = 0 /\ psNode = None
    /\ cnPc = "recv"
    /\ IdleTypeRef /\ IdleGen /\ IdleBuild /\ IdleFormat

(* token := nextToken() *)
LexScan ==
    /\ ~Crashed /\ lexPc = "scan"
    /\ \E lexed \in {nextToken(tkInput, Cursor(tkPos, tkLine, tkCol))} :
          /\ lexToken' = Some(lexed.tok)
          /\ tkPos' = lexed.sc.pos /\ tkLine' = lexed.sc.line /\ tkCol' = lexed.sc.col
    /\ lexPc' = "send"
    /\ UNCHANGED <<tkInput, tkCh, tkClosed, psPlan, psTaken, psNode, cnPc, trVars, genVars, buildVars,
                   parseVars, formatVars>>

(* ch <- token in Tokenize and token, ok := <-p.tokens in nextToken *)
HandOffToken ==
    /\ ~Crashed /\ lexPc = "send"
    /\ tokenHandOff(ParserWaits)
    /\ tkCh' = Append(tkCh, lexToken[1])
    /\ psTaken' = IF ParserWaits THEN psTaken + 1 ELSE psTaken
    /\ lexPc' = IF lexToken[1].Type = "EOF" THEN "close" ELSE "scan"
    /\ lexToken' = None
    /\ UNCHANGED <<tkInput, tkPos, tkLine, tkCol, tkClosed, psPlan, psNode, cnPc, trVars, genVars,
                   buildVars, parseVars, formatVars>>

(* a goroutine that returns at EOF without closing its channel *)
LexEndsWithoutClose ==
    /\ ~Crashed /\ lexPc = "close"
    /\ lexPc' = "done"
    /\ UNCHANGED <<tkInput, tkPos, tkLine, tkCol, tkCh, tkClosed, lexToken, psPlan, psTaken,
                   psNode, cnPc, trVars, genVars, buildVars, parseVars, formatVars>>

(* the loop of Tokenize was left at EOF: the deferred close(ch) runs *)
LexClose ==
    /\ ~Crashed /\ lexPc = "close"
    /\ tkClosed' = TRUE
    /\ lexPc' = "done"
    /\ UNCHANGED <<tkInput, tkPos, tkLine, tkCol, tkCh, lexToken, psPlan, psTaken, psNode, cnPc,
                   trVars, genVars, buildVars, parseVars, formatVars>>

(* the parser has received what the turn takes and runs to the end of the
   turn: newParser, handleComment, handleDocumentation or parseDefinition *)
ParserTurn ==
    /\ psState = "running" /\ psPlan # <<>>
    /\ \E r \in {Head(psPlan)} :
          /\ psTaken = r.taken
          /\ r.readClosed => tkClosed
          /\ p' = r.p
          /\ psNode' = IF r.p.panic = <<>> /\ r.v # None THEN Some(r.v) ELSE None
          /\ psState' = CASE r.p.panic # <<>> -> "panicked"
                          [] r.p.panic = <<>> /\ r.v # None -> "sending"
                          [] OTHER -> "running"
    /\ psPlan' = Tail(psPlan)
    /\ UNCHANGED <<psInput, astCh, psTaken, lexPc, lexToken, cnPc, trVars, genVars, buildVars,
                   tokVars, formatVars>>

(* ch <- ast in Parse and the receive of the consumer *)
HandOffNode ==
    /\ psState = "sending"
    /\ nodeHandOff(cnPc = "recv")
    /\ astCh' = IF cnPc = "recv" THEN Append(astCh, psNode[1]) ELSE astCh
    /\ psNode' = None
    /\ psState' = "running"
    /\ UNCHANGED <<psInput, p, psPlan, psTaken, lexPc, lexToken, cnPc, trVars, genVars, buildVars,
                   tokVars, formatVars>>

(* the loop of Parse ends at EOF and the deferred close(ch) runs *)
CloseNodes ==
    /\ psState = "running" /\ psPlan = <<>>
    /\ psState' = "closed"
    /\ UNCHANGED <<psInput, p, astCh, pipeVars, trVars, genVars, buildVars, tokVars,
                   formatVars>>

(* `for node := range ch` ends when the channel is closed *)
ConsumerDone ==
    /\ cnPc = "recv" /\ psState = "closed"
    /\ cnPc' = "done"
    /\ UNCHANGED <<lexPc, lexToken, psPlan, psTaken, psNode, trVars, genVars, buildVars, tokVars,
                   parseVars, formatVars>>

(* a consumer that stops receiving before the channel is closed *)
ConsumerStops ==
    /\ ~Crashed /\ cnPc = "recv" /\ psState # "closed"
    /\ cnPc' = "stopped"
    /\ UNCHANGED <<lexPc, lexToken, psPlan, psTaken, psNode, trVars, genVars, buildVars, tokVars,
                   parseVars, formatVars>>

NextDrain == LexScan \/ HandOffToken \/ LexClose \/ ParserTurn \/ HandOffNode \/ CloseNodes
                 \/ ConsumerDone
NextPipe == NextDrain \/ ConsumerStops

SpecPipe == InitPipe /\ [][NextPipe]_vars
(* the consumer of buildSchemaFromFiles, which receives until the channel is
   closed; the scheduler runs every goroutine that can take a step *)
SpecDrain == InitPipe /\ [][NextDrain]_vars /\ WF_vars(NextDrain)


(* ---------------------------------------------------------------------- *)
(* C24, C25: the hand-offs of the pipeline                                *)

(* the tokens nextToken has returned in the goroutine of Tokenize *)
Produced == Len(tkCh) + (IF lexToken = None THEN 0 ELSE 1)
LexerAhead == Produced - psTaken
ProducesNext == lexToken = None /\ lexToken' # None
ProducedAfterTaken == ProducesNext => psTaken = Produced

(* C24: in every interleaving the lexer has produced at most one token
   more than the parser has received, and it produces token n+1 only when
   the parser has taken token n *)
C24_LexerAtMostOneAhead == [](LexerAhead \in {0, 1}) /\ [][ProducedAfterTaken]_vars
(* the lexer waits with a token while the parser waits for the consumer *)
C24_Witness ==
    /\ lexPc = "send" /\ psState = "sending" /\ ~ParserWaits
    /\ psTaken >= 2 /\ LexerAhead = 1

(* the pieces the input was made of, and the number of tokens up to the
   end of its k-th definition *)
RECURSIVE PiecesOf(_)
PiecesOf(input) ==
    IF input = "" THEN <<>>
    ELSE LET piece == CHOOSE x \in PipePieces :
                          Len(x) <= Len(input) /\ SubSeq(input, 1, Len(x)) = x
         IN  <<piece>> \o PiecesOf(SubSeq(input, Len(piece) + 1, Len(input)))
TokensThrough(input, k) ==
    IF k > Len(PiecesOf(input)) THEN Len(Tokenize(input))
    ELSE Len(Tokenize(ConcatAll(SubSeq(PiecesOf(input), 1, k)))) - 1
Lookahead == 2

NodeOfPiece(piece) == Parse(piece).asts[1]
InSourceOrderReceived ==
    \A k \in 1..Len(astCh) :
        /\ astCh[k].ast = NodeOfPiece(PiecesOf(tkInput)[k]).ast
        /\ astCh[k].Name = NodeOfPiece(PiecesOf(tkInput)[k]).Name
NotAheadOfConsumer == psTaken <= TokensThrough(tkInput, Len(astCh) + 1) + Lookahead
ReceivesNode == Len(astCh') = Len(astCh) + 1
TakenAtReceive == ReceivesNode => psTaken' <= TokensThrough(tkInput, Len(astCh')) + Lookahead

(* C25: in every interleaving the nodes reach the consumer in source
   order; when the consumer receives the k-th node the parser has taken
   the tokens of definitions 1..k and at most two more; while the consumer
   has taken k-1 nodes the parser takes no token beyond the two that
   follow definition k *)
C25_NodesInOrderParserWaits ==
    /\ [](InSourceOrderReceived /\ NotAheadOfConsumer)
    /\ [][TakenAtReceive]_vars
(* the second node waits for the consumer, the parser holds the two tokens
   that follow its definition and a third definition is left *)
C25_Witness ==
    /\ Len(PiecesOf(tkInput)) = 3 /\ Len(astCh) = 1 /\ psState = "sending"
    /\ psTaken = TokensThrough(tkInput, 2) + Lookahead
    /\ lexPc = "send"


(* ---------------------------------------------------------------------- *)
(* C26: a consumer that stops receiving                                   *)

(* the scheduler runs every goroutine that can take a step; the consumer
   is free to stop or to go on *)
FairSpecPipe == SpecPipe /\ WF_vars(NextDrain)

SyntaxErrorFree(input) == Parse(input).state = "closed"
(* the consumer has stopped and a definition of the input has not reached it *)
Abandoned ==
    /\ cnPc = "stopped"
    /\ SyntaxErrorFree(tkInput)
    /\ Len(astCh) < Len(PiecesOf(tkInput))
(* the input holds more tokens than the parser takes up to its blocked send:
   those of the next definition and the two it looks ahead *)
LexerLeftBehind ==
    Len(Tokenize(tkInput)) > TokensThrough(tkInput, Len(astCh) + 1) + Lookahead
NothingClosedNorTerminated ==
    /\ ~tkClosed /\ lexPc \notin {"close", "done"}
    /\ psState # "closed"

(* C26 as stated: once the consumer has stopped with a definition left,
   neither channel is ever closed and neither stage ever terminates *)
C26_AbandonedNeverCloses == [](Abandoned => NothingClosedNorTerminated)

(* where the stages come to rest once the consumer has stopped: the parser
   in its node send; the lexer in a token send when tokens are left beyond
   the two the parser looks ahead, and terminated otherwise *)
AtRest ==
    /\ psState = "sending"
    /\ IF LexerLeftBehind THEN lexPc = "send" /\ ~tkClosed ELSE lexPc = "done" /\ tkClosed

(* C26: once the consumer has stopped with a definition left, the parser
   comes to wait in its node send and stays there, its channel never
   closed; the lexer stays in a token send, its channel never closed, when
   tokens are left beyond the two the parser looks ahead, and otherwise
   hands off EOF, closes its channel and terminates *)
C26_AbandonedParserBlocked ==
    /\ [](Abandoned => psState # "closed")
    /\ [](Abandoned /\ LexerLeftBehind => ~tkClosed /\ lexPc \notin {"close", "done"})
    /\ (Abandoned ~> []AtRest)
(* the consumer stopped before the last definition: the parser waits with
   its node and the lexer has terminated *)
C26_Witness ==
    /\ Abandoned /\ ~LexerLeftBehind
    /\ Len(PiecesOf(tkInput)) >= 2
    /\ psState = "sending" /\ lexPc = "done" /\ tkClosed


(* ---------------------------------------------------------------------- *)
(* C30: termination of the pipeline                                       *)

(* the calls of nextToken the parser q has made: the tokens received and
   the receives that found the channel closed *)
CallsOfNextToken(input, q) ==
    Taken(input, q) + (IF q.peekToken = ClosedToken THEN 1 ELSE 0)
                    + (IF q.currentToken = ClosedToken THEN 1 ELSE 0)
(* a turn of the loop ends without a panic *)
EndsIteration == p # None /\ p' # p /\ p'.panic = <<>>
IterationConsumes ==
    EndsIteration => CallsOfNextToken(tkInput, p') > CallsOfNextToken(tkInput, p)
BothTerminated ==
    /\ psState = "closed" /\ psNode = None
    /\ lexPc = "done" /\ tkClosed /\ lexToken = None
LexerDoneWhenParserCloses ==
    psState = "closed" =>
        /\ lexPc = "done" /\ tkClosed /\ lexToken = None
        /\ Tokenize(tkInput) = tkCh
        /\ Len(astCh) = Len(PiecesOf(tkInput))

(* C30: with a consumer that receives until the channel is closed and an
   input without syntax error, both stages terminate: every iteration of
   the parser's loop consumes a token, the parser closes its output after
   the last definition, and by then the lexer has handed off EOF and closed
   its channel *)
C30_BothStagesTerminate ==
    /\ (SyntaxErrorFree(tkInput) => <>[]BothTerminated)
    /\ [](SyntaxErrorFree(tkInput) => LexerDoneWhenParserCloses)
    /\ [][IterationConsumes]_vars
(* three definitions went through and everything is closed *)
C30_Witness ==
    /\ BothTerminated /\ cnPc = "done"
    /\ Len(astCh) = 3 /\ SyntaxErrorFree(tkInput)


-----------------------------------------------------------------------------
(* C27, C28, C29: the validator object of an operation and the names the
   schema module declares *)

(* the key a field has in the response: its alias when it has one *)
ResponseKey(s) == IF IsSome(s.Alias) THEN Get(s.Alias) ELSE s.Name
ResponseKeys(ss) ==
    [i \in DOMAIN FieldSelections(ss) |-> ResponseKey(FieldSelections(ss)[i])]

(* C27: the entries of the validator object of an operation are keyed by
   the response keys of its field selections: the alias of `a: f`, the
   field name where there is no alias *)
C27_EntriesKeyedByResponseKey ==
    OperationWritten => Keys(LastValidator) = ResponseKeys(LastOperation.SelectionSet)

(* the selection set without its fragment spreads and inline fragments, at
   every depth *)
RECURSIVE FieldsOnly(_)
FieldOnly(s) ==
    IF IsSome(s.SelectionSet)
    THEN [s EXCEPT !.SelectionSet = Some(FieldsOnly(Get(s.SelectionSet)))]
    ELSE s
FieldsOnly(ss) ==
    SelectionSet([i \in DOMAIN FieldSelections(ss) |-> FieldOnly(FieldSelections(ss)[i])])

(* C28: the object written for a selection set with fragment spreads or
   inline fragments is the object written for the same selection set
   without them: no entry and no separator for a skipped selection *)
C28_FragmentsLeaveNoTrace ==
    OperationWritten =>
        LastValidator = generateSelectionSetSchema(FieldsOnly(LastOperation.SelectionSet),
                                                   Get(rootTypeOf(LastOperation, schema)),
                                                   schema)

(* C29: no two const declarations and no two type declarations of the
   schema module have the same name *)
C29_NoIdentifierDeclaredTwice ==
    \A i \in DOMAIN out : \A j \in DOMAIN out :
        i < j /\ out[i].d \in {"const", "type"} /\ out[j].d = out[i].d
            => out[i].name # out[j].name

=============================================================================
